---------------------------- MODULE Spec2Model ----------------------------
(***************************************************************************)
(* Model of the CSV validation / streaming-aggregation service of          *)
(* cf_tools (src/src/renderer/src/types.ts).                               *)
(*                                                                         *)
(* Text is modelled as a sequence of characters, each character a          *)
(* one-element string.  Characters that TLA+ strings cannot hold are       *)
(* named: BOM is U+FEFF, FWL and FWR are the full-width brackets U+FF08    *)
(* and U+FF09.  The Chinese column names are transliterated; a name's run  *)
(* of ordinary characters is one opaque token (it holds no bracket, no     *)
(* white space and no BOM), so two texts are equal exactly when their      *)
(* token sequences are.                                                    *)
(***************************************************************************)
EXTENDS Integers, Sequences, FiniteSets, TLC

VARIABLES
    fileExists,        \* existsSync(filePath) of the input
    file,              \* the decoded records of the input: header, then data rows
    dir,               \* the output directory: which candidate output names exist
    pc,                \* position of the runCsvAggregation call
    preview,           \* the ValidationResult held by runCsvAggregation
    validation,        \* the last result returned by a previewAndValidateCsv call
    cursor,            \* number of records the parser has delivered
    isHeader,          \* parseDataRows: isHeader
    processedRows,     \* parseDataRows: processedRows
    skippedRows,       \* parseDataRows: skippedRows
    invalidFieldStats, \* parseDataRows: invalidFieldStats
    buckets,           \* parseDataRows: buckets, in insertion order
    outputPath,        \* runCsvAggregation: outputPath
    result,            \* the AggregationRunResult returned, or Null
    options,           \* runCsvAggregation: options, as buildOutputRows reads them
    outputRows,        \* runCsvAggregation: outputRows
    mergeTarget,       \* mergeBucket: the bucket merged into
    mergePending,      \* the buckets still to be merged into it, in order
    sample,            \* detectDelimiter: the sample text of the call
    best,              \* detectDelimiter: the delimiter returned, or Null
    stream,            \* readFileHeadBuffer: the chunks the file is read in
    delivered,         \* the number of chunks the stream has emitted
    destroyed,         \* stream.destroy() was called
    closed,            \* the stream has emitted 'close'
    chunks,            \* readFileHeadBuffer: chunks
    total,             \* readFileHeadBuffer: total
    headBuffer,        \* what the promise of readFileHeadBuffer settled with
    runs,              \* two overlapping calls of runCsvAggregation
    contents           \* what the files opened by these calls hold

vars == <<fileExists, file, dir, pc, preview, validation, cursor, isHeader,
          processedRows, skippedRows, invalidFieldStats, buckets, outputPath,
          result, options, outputRows, mergeTarget, mergePending,
          sample, best, stream, delivered, destroyed, closed, chunks, total,
          headBuffer, runs, contents>>

(***************************************************************************)
(* Characters                                                              *)
(***************************************************************************)
BOM == "BOM"
FWL == "FWL"
FWR == "FWR"

\* The characters matched by \s and removed by String.prototype.trim that
\* the inputs use.  U+FEFF is white space in ECMAScript.
WhiteSpace == {" ", "\t", "\r", "\n", BOM}

DigitChars == <<"0", "1", "2", "3", "4", "5", "6", "7", "8", "9">>

Digits == {DigitChars[i] : i \in 1..10}

DigitVal(c) == (CHOOSE i \in 1..10 : DigitChars[i] = c) - 1

RECURSIVE TrimStart(_)
TrimStart(s) ==
    IF s # <<>> /\ Head(s) \in WhiteSpace THEN TrimStart(Tail(s)) ELSE s

RECURSIVE TrimEnd(_)
TrimEnd(s) ==
    IF s # <<>> /\ s[Len(s)] \in WhiteSpace
    THEN TrimEnd(SubSeq(s, 1, Len(s) - 1))
    ELSE s

\* String.prototype.trim
Trim(s) == TrimEnd(TrimStart(s))

\* value.replace(/c/g, '') for the characters of the set cs
RemoveAll(s, cs) == SelectSeq(s, LAMBDA c : c \notin cs)

\* value.replace(/\s+/g, ' ')
RECURSIVE CollapseWhiteSpace(_)
CollapseWhiteSpace(s) ==
    IF s = <<>> THEN <<>>
    ELSE IF Head(s) \in WhiteSpace
         THEN <<" ">> \o CollapseWhiteSpace(TrimStart(s))
         ELSE <<Head(s)>> \o CollapseWhiteSpace(Tail(s))

(***************************************************************************)
(* Columns                                                                 *)
(***************************************************************************)
COL_TIME         == <<"time">>
COL_CI           == <<"CI">>
COL_NETWORK      == <<"network">>
COL_CELLNAME     == <<"cellName">>
COL_FLOW         == <<"5G_flow", "(", "GB", ")">>
COL_MAXUSER      == <<"5G_maxUser">>
COL_ULPRB        == <<"5G_ulPrb", "(", "%", ")">>
COL_DLPRB        == <<"5G_dlPrb", "(", "%", ")">>
COL_ULRATE       == <<"5G_ulRate", "(", "Mbps", ")">>
COL_DLRATE       == <<"5G_dlRate", "(", "Mbps", ")">>
COL_ACCESSRATE   == <<"5G_accessRate", "(", "%", ")">>
COL_DROPRATE     == <<"5G_dropRate", "(", "%", ")">>
COL_HANDOVERRATE == <<"5G_handoverRate", "(", "%", ")">>
COL_INTERFERENCE == <<"5G_interference", "(", "dBm", ")">>

REQUIRED_COLUMNS ==
    <<COL_TIME, COL_CI, COL_NETWORK, COL_CELLNAME, COL_FLOW, COL_MAXUSER,
      COL_ULPRB, COL_DLPRB, COL_ULRATE, COL_DLRATE, COL_ACCESSRATE,
      COL_DROPRATE, COL_HANDOVERRATE, COL_INTERFERENCE>>

DEFAULT_DELIMITER == ","

\* value.replace(/^\uFEFF/, '')
StripLeadingBom(s) == IF s # <<>> /\ Head(s) = BOM THEN Tail(s) ELSE s

\* value.replace(/FWL/g, '(').replace(/FWR/g, ')')
FoldBrackets(s) ==
    [i \in 1..Len(s) |-> IF s[i] = FWL THEN "("
                         ELSE IF s[i] = FWR THEN ")" ELSE s[i]]

normalizeHeader_noFold(value) ==
    Trim(CollapseWhiteSpace(StripLeadingBom(value)))

normalizeHeader(value) ==
    Trim(CollapseWhiteSpace(FoldBrackets(StripLeadingBom(value))))

(***************************************************************************)
(* ValueParsers                                                            *)
(***************************************************************************)
PAT_TIME_S == <<" ", "H", "H", ":", "m", "m", ":", "s", "s">>
PAT_TIME_M == <<" ", "H", "H", ":", "m", "m">>
PAT_DASH   == <<"Y", "Y", "Y", "Y", "-", "M", "M", "-", "D", "D">>
PAT_SLASH  == <<"Y", "Y", "Y", "Y", "/", "M", "M", "/", "D", "D">>
PAT_PLAIN  == <<"Y", "Y", "Y", "Y", "M", "M", "D", "D">>

DATE_PATTERNS ==
    <<PAT_DASH \o PAT_TIME_S,
      PAT_SLASH \o PAT_TIME_S,
      PAT_DASH \o PAT_TIME_M,
      PAT_SLASH \o PAT_TIME_M,
      PAT_DASH,
      PAT_SLASH,
      PAT_PLAIN \o <<"H", "H", "m", "m", "s", "s">>,
      PAT_PLAIN>>

PatternLetters == {"Y", "M", "D", "H", "m", "s"}

RECURSIVE DigitsValue(_)
DigitsValue(s) ==
    IF s = <<>> THEN 0
    ELSE 10 * DigitsValue(SubSeq(s, 1, Len(s) - 1)) + DigitVal(s[Len(s)])

IsLeapYear(y) == (y % 4 = 0 /\ y % 100 # 0) \/ y % 400 = 0

DaysInMonth(y, m) ==
    IF m = 2 THEN (IF IsLeapYear(y) THEN 29 ELSE 28)
    ELSE IF m \in {4, 6, 9, 11} THEN 30 ELSE 31

Pad(n, width) ==
    [i \in 1..width |-> DigitChars[((n \div (10 ^ (width - i))) % 10) + 1]]

\* dayjs format('YYYY-MM-DD')
FormatDay(y, m, d) == Pad(y, 4) \o <<"-">> \o Pad(m, 2) \o <<"-">> \o Pad(d, 2)

NoDay == [valid |-> FALSE]

SomeDay(y, m, d) == [valid |-> TRUE, day |-> FormatDay(y, m, d)]

\* the digits of raw at the places where pattern holds the letter
PatternField(raw, pattern, letter) ==
    DigitsValue(SelectSeq([i \in 1..Len(raw) |->
                              IF pattern[i] = letter THEN raw[i] ELSE "-"],
                          LAMBDA c : c # "-"))

ShapeMatches(raw, pattern) ==
    /\ Len(raw) = Len(pattern)
    /\ \A i \in 1..Len(raw) :
          IF pattern[i] \in PatternLetters
          THEN raw[i] \in Digits
          ELSE raw[i] = pattern[i]

\* dayjs(raw, pattern, true).isValid(): the text has the pattern's shape and
\* formats back to itself, that is, every field is in its calendar range.
StrictValid(raw, pattern) ==
    /\ ShapeMatches(raw, pattern)
    /\ LET y == PatternField(raw, pattern, "Y")
           m == PatternField(raw, pattern, "M")
           d == PatternField(raw, pattern, "D")
       IN  /\ y >= 100
           /\ m \in 1..12
           /\ d \in 1..DaysInMonth(y, m)
           /\ PatternField(raw, pattern, "H") <= 23
           /\ PatternField(raw, pattern, "m") <= 59
           /\ PatternField(raw, pattern, "s") <= 59

StrictDay(raw, pattern) ==
    SomeDay(PatternField(raw, pattern, "Y"),
            PatternField(raw, pattern, "M"),
            PatternField(raw, pattern, "D"))

\* dayjs(raw), the permissive parse: of the texts its regex accepts, the
\* model covers the date-only form YYYY-M-D or YYYY/M/D with one or two
\* digits of month and day and every field in its calendar range (no
\* roll-over); every other text is taken to be no date, which holds for
\* the texts the inputs draw (TIME_NOT_A_DATE, TIME_BAD_MONTH).
FallbackParts(raw) ==
    LET seps == {i \in 1..Len(raw) : raw[i] \in {"-", "/"}}
    IN  IF Cardinality(seps) = 2
        THEN LET a == CHOOSE i \in seps : \A j \in seps : i <= j
                 b == CHOOSE i \in seps : \A j \in seps : j <= i
             IN  <<SubSeq(raw, 1, a - 1), SubSeq(raw, a + 1, b - 1),
                   SubSeq(raw, b + 1, Len(raw))>>
        ELSE <<>>

AllDigits(s) == \A i \in 1..Len(s) : s[i] \in Digits

FallbackDay(raw) ==
    LET p == FallbackParts(raw)
    IN  IF /\ p # <<>>
           /\ Len(p[1]) = 4 /\ Len(p[2]) \in 1..2 /\ Len(p[3]) \in 1..2
           /\ AllDigits(p[1]) /\ AllDigits(p[2]) /\ AllDigits(p[3])
           /\ DigitsValue(p[1]) >= 100
           /\ DigitsValue(p[2]) \in 1..12
           /\ DigitsValue(p[3]) \in 1..DaysInMonth(DigitsValue(p[1]),
                                                   DigitsValue(p[2]))
        THEN SomeDay(DigitsValue(p[1]), DigitsValue(p[2]), DigitsValue(p[3]))
        ELSE NoDay

RECURSIVE TryPatterns(_, _)
TryPatterns(raw, k) ==
    IF k > Len(DATE_PATTERNS) THEN FallbackDay(raw)
    ELSE IF StrictValid(raw, DATE_PATTERNS[k])
         THEN StrictDay(raw, DATE_PATTERNS[k])
         ELSE TryPatterns(raw, k + 1)

parseDateToDay(value) ==
    LET raw == Trim(value)
    IN  IF raw = <<>> THEN NoDay ELSE TryPatterns(raw, 1)

\* The numbers of the run are IEEE 754 doubles.  The integer n stands for
\* the number Hi(n) * 10^16 + Lo(n): the whole numbers below 10^16 in
\* magnitude stand for themselves, and the numbers around a small multiple
\* of 10^16 are the integers around the same multiple of E16.
E16 == 2 ^ 24

Hi(n) == (n + (E16 \div 2)) \div E16

Lo(n) == n - (Hi(n) * E16)

\* The distance of neighbouring doubles around h * 10^16: doubles below
\* 2^53 hold every whole number, those in [2^53, 2^54) every second one,
\* those in [2^54, 2^55) every fourth one.
Ulp(h) ==
    CASE h = 0 -> 1
      [] h \in {-1, 1} -> 2
      [] h \in {-3, -2, 2, 3} -> 4

\* Round to nearest, ties to the even significand.  10^16 / 2, 2 * 10^16 / 4
\* and 3 * 10^16 / 4 are even, so the significand of h * 10^16 + l is even
\* exactly when l / Ulp(h) is.
RoundDouble(n) ==
    LET u == Ulp(Hi(n))
        l == Lo(n)
        q == l \div u
        r == l - (q * u)
        nearest == IF 2 * r < u THEN q
                   ELSE IF 2 * r > u THEN q + 1
                   ELSE IF q % 2 = 0 THEN q ELSE q + 1
    IN  (Hi(n) * E16) + (nearest * u)

\* a + b on doubles
Add(a, b) == RoundDouble(a + b)

\* A cell the record does not have (row[i] === undefined)
Undefined == <<"undefined">>

NullNumber == [isNull |-> TRUE]

SomeNumber(n) == [isNull |-> FALSE, num |-> n]

\* Number(text) on the characters of the inputs: white space around the
\* literal is ignored, the empty text is 0, an optionally signed run of
\* digits is its value, anything else is NaN (returned as NullNumber by
\* the only caller, which rejects every non-finite value).
IsIntegerLiteral(s) ==
    LET body == IF s # <<>> /\ Head(s) \in {"-", "+"} THEN Tail(s) ELSE s
    IN  body # <<>> /\ AllDigits(body)

IntegerLiteralValue(s) ==
    IF Head(s) = "-" THEN 0 - DigitsValue(Tail(s))
    ELSE IF Head(s) = "+" THEN DigitsValue(Tail(s))
    ELSE DigitsValue(s)

\* The one literal with an exponent among the inputs
LITERAL_1E16 == <<"1", "e", "1", "6">>

ToNumber(text) ==
    LET s == Trim(text)
    IN  IF s = <<>> THEN SomeNumber(0)
        ELSE IF IsIntegerLiteral(s) THEN SomeNumber(IntegerLiteralValue(s))
        ELSE IF s = LITERAL_1E16 THEN SomeNumber(E16)
        ELSE IF s = <<"-">> \o LITERAL_1E16 THEN SomeNumber(0 - E16)
        ELSE NullNumber

parseNumeric(value) ==
    IF value = Undefined THEN NullNumber
    ELSE LET cleaned == RemoveAll(RemoveAll(Trim(value), {","}), {"%"})
         IN  IF cleaned = <<>> THEN NullNumber ELSE ToNumber(cleaned)

(***************************************************************************)
(* HeaderValidator and the preview entry point                             *)
(***************************************************************************)
\* header.map(normalizeHeader)
NormalizeAll(header) == [i \in 1..Len(header) |-> normalizeHeader(header[i])]

SeqRange(s) == {s[i] : i \in 1..Len(s)}

getMissingColumns_rawHeader(header) ==
    LET set == SeqRange(header)
    IN  SelectSeq(REQUIRED_COLUMNS, LAMBDA column : column \notin set)

getMissingColumns(header) ==
    LET normalizedHeader == NormalizeAll(header)
        set == SeqRange(normalizedHeader)
    IN  SelectSeq(REQUIRED_COLUMNS,
                  LAMBDA column : normalizeHeader(column) \notin set)

\* detectCsv: the encoding and delimiter found for the file and the rows of
\* its prefix, at most maxRows + 1 of them (parseCsvText).
PREVIEW_MAX_ROWS == 100

detectCsv(f) ==
    [encoding |-> f.encoding,
     delimiter |-> f.delimiter,
     previewRows |-> SubSeq(f.records, 1,
                            IF Len(f.records) < PREVIEW_MAX_ROWS + 1
                            THEN Len(f.records) ELSE PREVIEW_MAX_ROWS + 1)]

NoValidation == [returned |-> FALSE]

\* previewAndValidateCsv once the file is known to exist
ValidateDetected_partialPasses(f) ==
    LET detected == detectCsv(f)
        header == IF Len(detected.previewRows) > 0
                  THEN detected.previewRows[1] ELSE <<>>
        missingColumns == getMissingColumns(header)
    IN  [returned |-> TRUE,
         encoding |-> detected.encoding,
         delimiter |-> detected.delimiter,
         previewRows |-> SubSeq(detected.previewRows, 1,
                                IF Len(detected.previewRows) < PREVIEW_MAX_ROWS
                                THEN Len(detected.previewRows)
                                ELSE PREVIEW_MAX_ROWS),
         requiredColumnsFound |-> (Len(missingColumns) < Len(REQUIRED_COLUMNS)),
         missingColumns |-> missingColumns]

ValidateDetected(f) ==
    LET detected == detectCsv(f)
        header == IF Len(detected.previewRows) > 0
                  THEN detected.previewRows[1] ELSE <<>>
        missingColumns == getMissingColumns(header)
    IN  [returned |-> TRUE,
         encoding |-> detected.encoding,
         delimiter |-> detected.delimiter,
         previewRows |-> SubSeq(detected.previewRows, 1,
                                IF Len(detected.previewRows) < PREVIEW_MAX_ROWS
                                THEN Len(detected.previewRows)
                                ELSE PREVIEW_MAX_ROWS),
         requiredColumnsFound |-> (Len(missingColumns) = 0),
         missingColumns |-> missingColumns]

previewAndValidateCsv_existenceUnchecked(exists, f) == ValidateDetected(f)

previewAndValidateCsv(exists, f) ==
    IF ~exists
    THEN [returned |-> TRUE,
          encoding |-> "utf-8",
          delimiter |-> DEFAULT_DELIMITER,
          previewRows |-> <<>>,
          requiredColumnsFound |-> FALSE,
          missingColumns |-> REQUIRED_COLUMNS]
    ELSE ValidateDetected(f)

(***************************************************************************)
(* Buckets                                                                 *)
(***************************************************************************)
createEmptyBucket(date, network) ==
    [date |-> date, network |-> network,
     flowSum |-> 0, maxUserSum |-> 0,
     ulPrbSum |-> 0, ulPrbCount |-> 0,
     dlPrbSum |-> 0, dlPrbCount |-> 0,
     ulRateSum |-> 0, ulRateCount |-> 0,
     dlRateSum |-> 0, dlRateCount |-> 0,
     accessRateSum |-> 0, accessRateCount |-> 0,
     dropRateSum |-> 0, dropRateCount |-> 0,
     handoverRateSum |-> 0, handoverRateCount |-> 0,
     interferenceSum |-> 0, interferenceCount |-> 0]

addAvgField_noCount(bucket, fieldKey, countKey, value) ==
    IF value.isNull THEN bucket
    ELSE [bucket EXCEPT ![fieldKey] = Add(@, value.num)]

\* addAvgField: the bucket after the call; the call returns ~value.isNull
addAvgField(bucket, fieldKey, countKey, value) ==
    IF value.isNull THEN bucket
    ELSE [bucket EXCEPT ![fieldKey] = Add(@, value.num), ![countKey] = @ + 1]

\* The two sum-only fields and the eight averaged fields of a data row, in
\* the order parseDataRows handles them.
SUM_FIELDS ==
    <<[column |-> COL_FLOW, fieldKey |-> "flowSum"],
      [column |-> COL_MAXUSER, fieldKey |-> "maxUserSum"]>>

AVG_FIELDS ==
    <<[column |-> COL_ULPRB, fieldKey |-> "ulPrbSum", countKey |-> "ulPrbCount"],
      [column |-> COL_DLPRB, fieldKey |-> "dlPrbSum", countKey |-> "dlPrbCount"],
      [column |-> COL_ULRATE, fieldKey |-> "ulRateSum", countKey |-> "ulRateCount"],
      [column |-> COL_DLRATE, fieldKey |-> "dlRateSum", countKey |-> "dlRateCount"],
      [column |-> COL_ACCESSRATE, fieldKey |-> "accessRateSum",
       countKey |-> "accessRateCount"],
      [column |-> COL_DROPRATE, fieldKey |-> "dropRateSum",
       countKey |-> "dropRateCount"],
      [column |-> COL_HANDOVERRATE, fieldKey |-> "handoverRateSum",
       countKey |-> "handoverRateCount"],
      [column |-> COL_INTERFERENCE, fieldKey |-> "interferenceSum",
       countKey |-> "interferenceCount"]>>

STATS_KEYS ==
    {COL_TIME, COL_NETWORK} \cup {SUM_FIELDS[i].column : i \in 1..2}
        \cup {AVG_FIELDS[i].column : i \in 1..8}

EmptyStats == [k \in {} |-> 0]

InitialStats == [k \in STATS_KEYS |-> 0]

(***************************************************************************)
(* StreamingAggregator: parseDataRows                                      *)
(***************************************************************************)
SetMax(S) == CHOOSE x \in S : \A y \in S : y <= x

\* indexMap.get(column) ?? -1, the map filled by
\* normalizedHeader.forEach((col, idx) => indexMap.set(col, idx))
colIndex(normalizedHeader, column) ==
    LET hits == {i \in 1..Len(normalizedHeader) : normalizedHeader[i] = column}
    IN  IF hits = {} THEN -1 ELSE SetMax(hits) - 1

\* row[idx]
CellAt(row, idx) ==
    IF idx >= 0 /\ idx < Len(row) THEN row[idx + 1] ELSE Undefined

\* row[idx] ?? ''
CellOrEmpty(row, idx) ==
    IF CellAt(row, idx) = Undefined THEN <<>> ELSE CellAt(row, idx)

BucketKey(day, networkRaw) == day \o <<"_", "_">> \o networkRaw

BucketIndex(bs, key) == {i \in 1..Len(bs) : bs[i].key = key}

\* buckets.get(key) ?? createEmptyBucket(day, networkRaw)
BucketsGet(bs, key, day, networkRaw) ==
    IF BucketIndex(bs, key) = {}
    THEN createEmptyBucket(day, networkRaw)
    ELSE bs[CHOOSE i \in BucketIndex(bs, key) : TRUE].bucket

\* buckets.set(key, bucket): a Map keeps the place of a key it already has
BucketsSet(bs, key, bucket) ==
    IF BucketIndex(bs, key) = {}
    THEN Append(bs, [key |-> key, bucket |-> bucket])
    ELSE [bs EXCEPT ![CHOOSE i \in BucketIndex(bs, key) : TRUE].bucket = bucket]

Bump(stats, column) == [stats EXCEPT ![column] = @ + 1]

\* acc = [bucket, stats]; the two sum-only fields of the row
RECURSIVE AddSumFields(_, _, _, _)
AddSumFields(row, normalizedHeader, acc, k) ==
    IF k > Len(SUM_FIELDS) THEN acc
    ELSE LET f == SUM_FIELDS[k]
             value == parseNumeric(CellAt(row, colIndex(normalizedHeader, f.column)))
         IN  AddSumFields(row, normalizedHeader,
                 IF value.isNull
                 THEN [acc EXCEPT !.stats = Bump(@, f.column)]
                 ELSE [acc EXCEPT !.bucket[f.fieldKey] = Add(@, value.num)],
                 k + 1)

\* acc = [bucket, stats]; the eight averaged fields of the row
RECURSIVE AddAvgFields(_, _, _, _)
AddAvgFields(row, normalizedHeader, acc, k) ==
    IF k > Len(AVG_FIELDS) THEN acc
    ELSE LET f == AVG_FIELDS[k]
             value == parseNumeric(CellAt(row, colIndex(normalizedHeader, f.column)))
         IN  AddAvgFields(row, normalizedHeader,
                 [bucket |-> addAvgField(acc.bucket, f.fieldKey, f.countKey, value),
                  stats |-> IF value.isNull THEN Bump(acc.stats, f.column)
                                            ELSE acc.stats],
                 k + 1)

\* invalidFieldStats[column] += 1; skippedRows += 1; continue
SkipRow_notCounted(st, column) ==
    [st EXCEPT !.invalidFieldStats = Bump(@, column)]

SkipRow(st, column) ==
    [st EXCEPT !.invalidFieldStats = Bump(@, column), !.skippedRows = @ + 1]

\* The row is a valid observation of (day, networkRaw): its bucket is
\* fetched or created, the ten numeric fields are added, the bucket is stored.
AggregateRow_skipOnBadField(row, normalizedHeader, st, day, networkRaw) ==
    LET key == BucketKey(day, networkRaw)
        bucket == BucketsGet(st.buckets, key, day, networkRaw)
        sums == AddSumFields(row, normalizedHeader,
                    [bucket |-> bucket, stats |-> st.invalidFieldStats], 1)
        all == AddAvgFields(row, normalizedHeader, sums, 1)
    IN  IF all.stats # st.invalidFieldStats
        THEN [st EXCEPT !.invalidFieldStats = all.stats, !.skippedRows = @ + 1]
        ELSE [st EXCEPT !.buckets = BucketsSet(@, key, all.bucket)]

AggregateRow(row, normalizedHeader, st, day, networkRaw) ==
    LET key == BucketKey(day, networkRaw)
        bucket == BucketsGet(st.buckets, key, day, networkRaw)
        sums == AddSumFields(row, normalizedHeader,
                    [bucket |-> bucket, stats |-> st.invalidFieldStats], 1)
        all == AddAvgFields(row, normalizedHeader, sums, 1)
    IN  [st EXCEPT !.invalidFieldStats = all.stats,
                   !.buckets = BucketsSet(@, key, all.bucket)]

HandleDataRow_networkFirst(row, normalizedHeader, st) ==
    LET timeRaw == CellOrEmpty(row, colIndex(normalizedHeader, COL_TIME))
        networkRaw == Trim(CellOrEmpty(row, colIndex(normalizedHeader, COL_NETWORK)))
        day == parseDateToDay(timeRaw)
    IN  IF networkRaw = <<>> THEN SkipRow(st, COL_NETWORK)
        ELSE IF ~day.valid THEN SkipRow(st, COL_TIME)
        ELSE AggregateRow(row, normalizedHeader, st, day.day, networkRaw)

\* The body of the readable loop for one data row, after processedRows += 1
HandleDataRow(row, normalizedHeader, st) ==
    LET timeRaw == CellOrEmpty(row, colIndex(normalizedHeader, COL_TIME))
        networkRaw == Trim(CellOrEmpty(row, colIndex(normalizedHeader, COL_NETWORK)))
        day == parseDateToDay(timeRaw)
    IN  IF ~day.valid THEN SkipRow(st, COL_TIME)
        ELSE IF networkRaw = <<>> THEN SkipRow(st, COL_NETWORK)
        ELSE AggregateRow(row, normalizedHeader, st, day.day, networkRaw)

ReadableStep_headerCounted(row, normalizedHeader, st) ==
    IF st.isHeader
    THEN [st EXCEPT !.isHeader = FALSE, !.processedRows = @ + 1]
    ELSE HandleDataRow(row, normalizedHeader, [st EXCEPT !.processedRows = @ + 1])

\* One turn of the readable loop: the first record is the header and is
\* passed over; every later record is counted and handled.
\* st = [isHeader, processedRows, skippedRows, invalidFieldStats, buckets]
ReadableStep(row, normalizedHeader, st) ==
    IF st.isHeader
    THEN [st EXCEPT !.isHeader = FALSE]
    ELSE HandleDataRow(row, normalizedHeader, [st EXCEPT !.processedRows = @ + 1])

(***************************************************************************)
(* OutputBuilder: formatting, merging and buildOutputRows                  *)
(***************************************************************************)
OUTPUT_COLUMNS ==
    <<COL_TIME, COL_NETWORK, COL_FLOW, COL_MAXUSER, COL_ULPRB, COL_DLPRB,
      COL_ULRATE, COL_DLRATE, COL_ACCESSRATE, COL_DROPRATE, COL_HANDOVERRATE,
      COL_INTERFERENCE>>

\* the two characters of the label, named by their code points
GRAND_TOTAL_LABEL == <<"U+603B", "U+8BA1">>

\* The value of a sum, and the value of sum / count
Whole(n) == [num |-> n, den |-> 1]

Quotient(sum, count) == [num |-> sum, den |-> count]

RECURSIVE DecimalDigits(_)
DecimalDigits(n) ==
    IF n < 10 THEN <<DigitChars[n + 1]>>
    ELSE Append(DecimalDigits(n \div 10), DigitChars[(n % 10) + 1])

RECURSIVE StripTrailingZeros(_)
StripTrailingZeros(s) ==
    IF s # <<>> /\ s[Len(s)] = "0"
    THEN StripTrailingZeros(SubSeq(s, 1, Len(s) - 1))
    ELSE s

\* The decimal digits of a whole number n >= 0, also around h * 10^16
WholeDigits(n) ==
    IF Hi(n) = 0 THEN DecimalDigits(n)
    ELSE IF Lo(n) >= 0
    THEN DecimalDigits(Hi(n)) \o [i \in 1..9 |-> "0"] \o Pad(Lo(n), 7)
    ELSE (IF Hi(n) = 1 THEN <<>> ELSE DecimalDigits(Hi(n) - 1))
         \o [i \in 1..9 |-> "9"] \o Pad((10 ^ 7) + Lo(n), 7)

\* n / 10^6 as toFixed(6) and Number(...).toString() leave it, n >= 0
MicroDigits(n) ==
    LET fraction == StripTrailingZeros(Pad(n % (10 ^ 6), 6))
    IN  DecimalDigits(n \div (10 ^ 6))
        \o (IF fraction = <<>> THEN <<>> ELSE <<".">> \o fraction)

\* Number(value.toFixed(6)).toString(): the value rounded to the nearest
\* millionth.  The sums and quotients of a run are finite, so the branch
\* for a non-finite value is not taken.
formatNumber(value) ==
    IF value.den = 1
    THEN IF value.num < 0 THEN <<"-">> \o WholeDigits(0 - value.num)
         ELSE WholeDigits(value.num)
    ELSE LET micro == ((2 * value.num * (10 ^ 6)) + value.den)
                          \div (2 * value.den)
         IN  IF micro < 0 THEN <<"-">> \o MicroDigits(0 - micro)
             ELSE MicroDigits(micro)

formatAverage_zeroWhenEmpty(sum, count) ==
    IF count <= 0 THEN <<"0">> ELSE formatNumber(Quotient(sum, count))

formatAverage(sum, count) ==
    IF count <= 0 THEN <<>> ELSE formatNumber(Quotient(sum, count))

\* The fields mergeBucket adds, in its order
MERGED_FIELDS ==
    <<"flowSum", "maxUserSum", "ulPrbSum", "ulPrbCount", "dlPrbSum",
      "dlPrbCount", "ulRateSum", "ulRateCount", "dlRateSum", "dlRateCount",
      "accessRateSum", "accessRateCount", "dropRateSum", "dropRateCount",
      "handoverRateSum", "handoverRateCount", "interferenceSum",
      "interferenceCount">>

mergeBucket_countsDropped(target, source) ==
    [k \in DOMAIN target |->
        IF k \in {"flowSum", "maxUserSum", "ulPrbSum", "dlPrbSum", "ulRateSum",
                  "dlRateSum", "accessRateSum", "dropRateSum",
                  "handoverRateSum", "interferenceSum"}
        THEN Add(target[k], source[k])
        ELSE target[k]]

\* mergeBucket(target, source): the target after the call
mergeBucket(target, source) ==
    [k \in DOMAIN target |->
        IF k \in SeqRange(MERGED_FIELDS) THEN Add(target[k], source[k])
        ELSE target[k]]

\* toOutputRow; Undefined stands for an argument that is not passed
toOutputRow(item, dateValue, networkValue) ==
    [c \in {OUTPUT_COLUMNS[i] : i \in 1..Len(OUTPUT_COLUMNS)} |->
        CASE c = COL_TIME ->
               IF dateValue = Undefined THEN item.date ELSE dateValue
          [] c = COL_NETWORK ->
               IF networkValue = Undefined THEN item.network ELSE networkValue
          [] c = COL_FLOW -> formatNumber(Whole(item.flowSum))
          [] c = COL_MAXUSER -> formatNumber(Whole(item.maxUserSum))
          [] c = COL_ULPRB -> formatAverage(item.ulPrbSum, item.ulPrbCount)
          [] c = COL_DLPRB -> formatAverage(item.dlPrbSum, item.dlPrbCount)
          [] c = COL_ULRATE -> formatAverage(item.ulRateSum, item.ulRateCount)
          [] c = COL_DLRATE -> formatAverage(item.dlRateSum, item.dlRateCount)
          [] c = COL_ACCESSRATE ->
               formatAverage(item.accessRateSum, item.accessRateCount)
          [] c = COL_DROPRATE ->
               formatAverage(item.dropRateSum, item.dropRateCount)
          [] c = COL_HANDOVERRATE ->
               formatAverage(item.handoverRateSum, item.handoverRateCount)
          [] c = COL_INTERFERENCE ->
               formatAverage(item.interferenceSum, item.interferenceCount)]

\* a.localeCompare(b) on the characters of dates and networks: the sign
\* and the digits before the letters, the letters in alphabetical order
COLLATION ==
    <<" ", "_", "-", "0", "1", "2", "3", "4", "5", "6", "7", "8", "9",
      "A", "N", "S">>

CollationRank(c) == CHOOSE i \in 1..Len(COLLATION) : COLLATION[i] = c

RECURSIVE localeCompare(_, _)
localeCompare(a, b) ==
    IF a = <<>> /\ b = <<>> THEN 0
    ELSE IF a = <<>> THEN -1
    ELSE IF b = <<>> THEN 1
    ELSE IF CollationRank(Head(a)) < CollationRank(Head(b)) THEN -1
    ELSE IF CollationRank(Head(a)) > CollationRank(Head(b)) THEN 1
    ELSE localeCompare(Tail(a), Tail(b))

\* the comparator of sortedBuckets
CompareBuckets(a, b) ==
    IF a.date = b.date THEN localeCompare(a.network, b.network)
    ELSE localeCompare(a.date, b.date)

\* Array.prototype.sort is stable: an item goes behind the items that do
\* not compare greater
RECURSIVE InsertSorted(_, _)
InsertSorted(sorted, item) ==
    IF sorted = <<>> THEN <<item>>
    ELSE IF CompareBuckets(item, Head(sorted)) < 0 THEN <<item>> \o sorted
    ELSE <<Head(sorted)>> \o InsertSorted(Tail(sorted), item)

RECURSIVE SortBuckets(_)
SortBuckets(list) ==
    IF list = <<>> THEN <<>>
    ELSE InsertSorted(SortBuckets(SubSeq(list, 1, Len(list) - 1)),
                      list[Len(list)])

\* [...buckets.values()]
BucketValues(bs) == [i \in 1..Len(bs) |-> bs[i].bucket]

\* for (const item of list) mergeBucket(target, item)
RECURSIVE MergeAll(_, _)
MergeAll(target, list) ==
    IF list = <<>> THEN target
    ELSE MergeAll(mergeBucket(target, Head(list)), Tail(list))

\* AggregationOutputOptions: each option is "true", "false" or "undefined"
NO_OPTIONS ==
    [includeDailySubtotalRows |-> "undefined",
     includeGrandTotalRow |-> "undefined",
     blankDateForDetailRowsWhenSubtotalEnabled |-> "undefined"]

\* the keys of byDate, in the order of their first bucket in sortedBuckets
RECURSIVE DatesOf(_)
DatesOf(list) ==
    IF list = <<>> THEN <<>>
    ELSE LET rest == DatesOf(SubSeq(list, 1, Len(list) - 1))
             date == list[Len(list)].date
         IN  IF \E i \in 1..Len(rest) : rest[i] = date THEN rest
             ELSE Append(rest, date)

DateGroupRows_subtotalLast(date, dateBuckets, blankDate) ==
    LET subtotal == MergeAll(createEmptyBucket(date, <<>>), dateBuckets)
    IN  [i \in 1..Len(dateBuckets) |->
              toOutputRow(dateBuckets[i],
                          IF blankDate THEN <<>> ELSE date,
                          dateBuckets[i].network)]
        \o <<toOutputRow(subtotal, date, <<>>)>>

DateGroupRows_noSubtotalOfOne(date, dateBuckets, blankDate) ==
    LET subtotal == MergeAll(createEmptyBucket(date, <<>>), dateBuckets)
    IN  (IF Len(dateBuckets) > 1
         THEN <<toOutputRow(subtotal, date, <<>>)>> ELSE <<>>)
        \o [i \in 1..Len(dateBuckets) |->
              toOutputRow(dateBuckets[i],
                          IF blankDate THEN <<>> ELSE date,
                          dateBuckets[i].network)]

\* the rows of one date group: the subtotal row, then the detail rows
DateGroupRows(date, dateBuckets, blankDate) ==
    LET subtotal == MergeAll(createEmptyBucket(date, <<>>), dateBuckets)
    IN  <<toOutputRow(subtotal, date, <<>>)>>
        \o [i \in 1..Len(dateBuckets) |->
              toOutputRow(dateBuckets[i],
                          IF blankDate THEN <<>> ELSE date,
                          dateBuckets[i].network)]

RECURSIVE SubtotalRows(_, _, _)
SubtotalRows(dates, sortedBuckets, blankDate) ==
    IF dates = <<>> THEN <<>>
    ELSE DateGroupRows(Head(dates),
                       SelectSeq(sortedBuckets,
                                 LAMBDA item : item.date = Head(dates)),
                       blankDate)
         \o SubtotalRows(Tail(dates), sortedBuckets, blankDate)

buildOutputRows_grandFirst(bs, opts) ==
    LET sortedBuckets == SortBuckets(BucketValues(bs))
        includeDailySubtotalRows == opts.includeDailySubtotalRows = "true"
        includeGrandTotalRow == opts.includeGrandTotalRow = "true"
        blankDate == opts.blankDateForDetailRowsWhenSubtotalEnabled # "false"
        grand == MergeAll(createEmptyBucket(<<>>, <<>>), sortedBuckets)
    IN  (IF includeGrandTotalRow
         THEN <<toOutputRow(grand, GRAND_TOTAL_LABEL, <<>>)>> ELSE <<>>)
        \o (IF ~includeDailySubtotalRows
            THEN [i \in 1..Len(sortedBuckets) |->
                    toOutputRow(sortedBuckets[i], Undefined, Undefined)]
            ELSE SubtotalRows(DatesOf(sortedBuckets), sortedBuckets, blankDate))

buildOutputRows_unsorted(bs, opts) ==
    LET sortedBuckets == BucketValues(bs)
        includeDailySubtotalRows == opts.includeDailySubtotalRows = "true"
        includeGrandTotalRow == opts.includeGrandTotalRow = "true"
        blankDate == opts.blankDateForDetailRowsWhenSubtotalEnabled # "false"
        grand == MergeAll(createEmptyBucket(<<>>, <<>>), sortedBuckets)
    IN  (IF ~includeDailySubtotalRows
         THEN [i \in 1..Len(sortedBuckets) |->
                 toOutputRow(sortedBuckets[i], Undefined, Undefined)]
         ELSE SubtotalRows(DatesOf(sortedBuckets), sortedBuckets, blankDate))
        \o (IF includeGrandTotalRow
            THEN <<toOutputRow(grand, GRAND_TOTAL_LABEL, <<>>)>> ELSE <<>>)

\* buildOutputRows.  The date groups of byDate are sorted by date once
\* more, which leaves them as they are in sortedBuckets, and so does the
\* sort of a group by network.
buildOutputRows(bs, opts) ==
    LET sortedBuckets == SortBuckets(BucketValues(bs))
        includeDailySubtotalRows == opts.includeDailySubtotalRows = "true"
        includeGrandTotalRow == opts.includeGrandTotalRow = "true"
        blankDate == opts.blankDateForDetailRowsWhenSubtotalEnabled # "false"
        grand == MergeAll(createEmptyBucket(<<>>, <<>>), sortedBuckets)
    IN  (IF ~includeDailySubtotalRows
         THEN [i \in 1..Len(sortedBuckets) |->
                 toOutputRow(sortedBuckets[i], Undefined, Undefined)]
         ELSE SubtotalRows(DatesOf(sortedBuckets), sortedBuckets, blankDate))
        \o (IF includeGrandTotalRow
            THEN <<toOutputRow(grand, GRAND_TOTAL_LABEL, <<>>)>> ELSE <<>>)

(***************************************************************************)
(* OutputWriter: the output path                                           *)
(***************************************************************************)
\* while (index < 10000)
MAX_INDEX == 10000

NoPath == [kind |-> "none"]

\* join(dir, `${fileName}-<suffix>${ext}`)
BasePath == [kind |-> "base"]

\* join(dir, `${fileName}-<suffix>(${index})${ext}`)
IndexPath(index) == [kind |-> "index", index |-> index]

\* join(dir, `${fileName}-<suffix>(${Date.now()})${ext}`)
TimestampPath(now) == [kind |-> "timestamp", now |-> now]

\* existsSync(path) in the directory d
Exists(d, path) ==
    CASE path.kind = "base" -> d.base
      [] path.kind = "index" -> path.index \in d.indexes
      [] path.kind = "timestamp" -> path.now \in d.timestamps
      [] OTHER -> FALSE

\* the directory once a file has been created at path
Created(d, path) ==
    CASE path.kind = "base" -> [d EXCEPT !.base = TRUE]
      [] path.kind = "index" -> [d EXCEPT !.indexes = @ \cup {path.index}]
      [] path.kind = "timestamp" -> [d EXCEPT !.timestamps = @ \cup {path.now}]
      [] OTHER -> d

\* getOutputPath
getOutputPath == BasePath

\* The loop tries index = 1, 2, ... while index < MAX_INDEX and returns the
\* first candidate that does not exist; after the loop, the timestamp name.
getNextAvailableOutputPath(d, now) ==
    IF ~Exists(d, getOutputPath) THEN getOutputPath
    ELSE IF \E index \in 1..(MAX_INDEX - 1) : ~Exists(d, IndexPath(index))
         THEN IndexPath(CHOOSE index \in 1..(MAX_INDEX - 1) :
                           /\ ~Exists(d, IndexPath(index))
                           /\ \A j \in 1..(index - 1) : Exists(d, IndexPath(j)))
         ELSE TimestampPath(now)

(***************************************************************************)
(* Inputs: headers, data rows, files, directories                          *)
(***************************************************************************)
MaxRows == 2

\* A header cell: the required column it stands for (or EXTRA_COLUMN) and
\* its text in the file.
EXTRA_COLUMN == <<"remark">>

HeaderCell(col, text) == [col |-> col, text |-> text]

FullWidth(text) ==
    [i \in 1..Len(text) |-> IF text[i] = "(" THEN FWL
                            ELSE IF text[i] = ")" THEN FWR ELSE text[i]]

HEADER_CANONICAL ==
    [i \in 1..14 |-> HeaderCell(REQUIRED_COLUMNS[i], REQUIRED_COLUMNS[i])]

\* Another order, an extra column, a leading BOM, full-width brackets and
\* white space around the names.
HEADER_MESSY ==
    <<HeaderCell(COL_TIME, <<BOM>> \o COL_TIME),
      HeaderCell(EXTRA_COLUMN, EXTRA_COLUMN)>>
    \o [i \in 1..13 |->
          LET col == REQUIRED_COLUMNS[15 - i]
          IN  HeaderCell(col,
                  IF i % 3 = 0 THEN FullWidth(col)
                  ELSE IF i % 3 = 1 THEN <<" ", "\t">> \o col \o <<" ">>
                  ELSE <<" ">> \o FullWidth(col))]

\* The header of the test 'stops when required columns are missing'
HEADER_MISSING ==
    SelectSeq(HEADER_CANONICAL, LAMBDA c : c.col # COL_DLPRB)

NUMERIC_COLUMNS ==
    <<COL_FLOW, COL_MAXUSER, COL_ULPRB, COL_DLPRB, COL_ULRATE, COL_DLRATE,
      COL_ACCESSRATE, COL_DROPRATE, COL_HANDOVERRATE, COL_INTERFERENCE>>

NumericPos(col) == CHOOSE i \in 1..10 : NUMERIC_COLUMNS[i] = col

\* Cell texts.  The i-th numeric column of a row holds a text of its own,
\* so a value read from the wrong column shows.
PlainNum(i) == IF i = 10 THEN <<"-", "1", "0">> ELSE <<DigitChars[i + 1]>>

DecoratedNum(i) ==
    IF i = 4 THEN <<"%", " ", "%">>
    ELSE <<" ", "2", ",", DigitChars[(i % 10) + 1], "%", " ">>

BadNum(i) ==
    IF i % 4 = 0 THEN <<>>
    ELSE IF i % 4 = 1 THEN <<"a", "b", "c">>
    ELSE IF i % 4 = 2 THEN <<"%">>
    ELSE <<"1", " ", "2">>

TIME_D1_SECONDS ==
    <<"2", "0", "2", "5", "-", "0", "1", "-", "0", "1", " ",
      "0", "1", ":", "0", "0", ":", "0", "0">>
TIME_D1_SLASH == <<"2", "0", "2", "5", "/", "0", "1", "/", "0", "1">>
TIME_D2_PLAIN == <<" ", "2", "0", "2", "5", "0", "1", "0", "2">>
TIME_D2_LOOSE == <<"2", "0", "2", "5", "-", "1", "-", "2">>
TIME_NOT_A_DATE == <<"n", "o", "t", "-", "a", "-", "d", "a", "t", "e">>
TIME_BAD_MONTH == <<"2", "0", "2", "5", "1", "3", "0", "1", "x">>

NET_NSA == <<"N", "S", "A">>
NET_NSA_SPACED == <<" ", "N", "S", "A", "\t">>
NET_SA == <<"S", "A">>
NET_BLANK == <<" ", " ">>

\* A data row: its cells by column, and how many leading cells the record
\* has (relax_column_count keeps records shorter than the header).
DataRow(time, network, nums, width) ==
    [time |-> time, network |-> network, nums |-> nums, width |-> width]

ROWS ==
    <<DataRow(TIME_D1_SECONDS, NET_NSA, [i \in 1..10 |-> PlainNum(i)], 15),
      DataRow(TIME_D1_SLASH, NET_NSA_SPACED,
              [i \in 1..10 |-> IF i = 3 THEN BadNum(i) ELSE DecoratedNum(i)], 15),
      DataRow(TIME_D2_PLAIN, NET_SA,
              [i \in 1..10 |-> IF i \in 1..3 THEN BadNum(i) ELSE PlainNum(i)], 15),
      DataRow(TIME_D2_LOOSE, NET_SA, [i \in 1..10 |-> BadNum(i)], 15),
      DataRow(TIME_NOT_A_DATE, NET_NSA, [i \in 1..10 |-> PlainNum(i)], 15),
      DataRow(<<>>, <<>>, [i \in 1..10 |-> BadNum(i)], 15),
      DataRow(TIME_D1_SECONDS, NET_BLANK, [i \in 1..10 |-> PlainNum(i)], 15),
      DataRow(TIME_D1_SLASH, NET_SA, [i \in 1..10 |-> DecoratedNum(i)], 5),
      DataRow(TIME_BAD_MONTH, NET_BLANK, [i \in 1..10 |-> DecoratedNum(i)], 15),
      DataRow(TIME_D1_SLASH, NET_SA,
              [i \in 1..10 |-> IF i = 3 THEN BadNum(i) ELSE DecoratedNum(i)], 15)>>

\* The cell of data row r under the header cell h
RowCell(r, h) ==
    IF h.col = COL_TIME THEN r.time
    ELSE IF h.col = COL_NETWORK THEN r.network
    ELSE IF h.col \in SeqRange(NUMERIC_COLUMNS) THEN r.nums[NumericPos(h.col)]
    ELSE <<"z">>

\* The record of data row r in a file with the given header
Layout(header, r) ==
    SubSeq([i \in 1..Len(header) |-> RowCell(r, header[i])], 1,
           IF r.width < Len(header) THEN r.width ELSE Len(header))

\* The rows a file's third and later data rows are drawn from: a valid row
\* of each bucket and a row with an invalid time
TAIL_ROWS == {1, 3, 5, 10}

\* the first two data rows of a file are any of ROWS
RowChoices ==
    {c \in UNION {[1..n -> 1..Len(ROWS)] : n \in 0..MaxRows} :
        \A i \in 3..Len(c) : c[i] \in TAIL_ROWS}

\* The rows laid out under HEADER_MESSY: rows that aggregate, a row that is
\* skipped and the short row
MESSY_ROWS == {1, 2, 7, 8}

MessyRowChoices == UNION {[1..n -> MESSY_ROWS] : n \in 0..MaxRows}

\* header and rows are kept beside the records they were laid out from
MkFile(encoding, delimiter, header, choice) ==
    [encoding |-> encoding,
     delimiter |-> delimiter,
     header |-> header,
     rows |-> [i \in 1..Len(choice) |-> ROWS[choice[i]]],
     records |-> <<[i \in 1..Len(header) |-> header[i].text]>>
                 \o [i \in 1..Len(choice) |-> Layout(header, ROWS[choice[i]])]]

\* A file with no record at all
EMPTY_FILE ==
    [encoding |-> "utf-8", delimiter |-> ",", header |-> <<>>, rows |-> <<>>,
     records |-> <<>>]

Files ==
    {MkFile("utf-8", ",", HEADER_CANONICAL, c) : c \in RowChoices}
    \cup {MkFile("gb18030", ";", HEADER_MESSY, c) : c \in MessyRowChoices}
    \cup {MkFile("utf-8", ",", HEADER_MISSING, c) : c \in {<<>>, <<1>>, <<1, 3>>}}
    \cup {EMPTY_FILE}

\* What stands for the file while the input path does not exist; no
\* operation reads it.
NO_FILE ==
    [encoding |-> "none", delimiter |-> "none", header |-> <<>>, rows |-> <<>>,
     records |-> <<>>]

\* Date.now() at the two moments the model distinguishes
NOW_VALUES == {"now1", "now2"}

DIR_FREE == [base |-> FALSE, indexes |-> {}, timestamps |-> {}]

DIR_BASE_TAKEN == [base |-> TRUE, indexes |-> {}, timestamps |-> {}]

Dirs ==
    {DIR_FREE,
     DIR_BASE_TAKEN,
     [base |-> FALSE, indexes |-> {1}, timestamps |-> {}],
     [base |-> TRUE, indexes |-> {1, 3}, timestamps |-> {}],
     [base |-> TRUE, indexes |-> 1..(MAX_INDEX - 2), timestamps |-> {"now1"}],
     [base |-> TRUE, indexes |-> 1..(MAX_INDEX - 1), timestamps |-> {}],
     [base |-> TRUE, indexes |-> 1..(MAX_INDEX - 1), timestamps |-> {"now1"}]}

\* The inputs: every file beside a free base name, and a few files beside
\* every directory.
Scenarios ==
    (Files \X {DIR_FREE})
    \cup ({MkFile("utf-8", ",", HEADER_CANONICAL, c) : c \in {<<>>, <<1, 3>>}} \X Dirs)

(***************************************************************************)
(* The entry points                                                        *)
(***************************************************************************)
NoResult == [returned |-> FALSE]

Failure(errorCode) ==
    [returned |-> TRUE, success |-> FALSE, processedRows |-> 0,
     skippedRows |-> 0, invalidFieldStats |-> EmptyStats,
     errorCode |-> errorCode]

\* the errors a stage can throw, each standing for its error.message
ERROR_PREFIX_READ == "prefix read failed"

ERROR_STREAM == "stream or parser failed"

ERROR_WRITE == "stringifier, transcoder or writer failed"

Caught_countersKept(error) ==
    [returned |-> TRUE, success |-> FALSE, processedRows |-> processedRows,
     skippedRows |-> skippedRows, invalidFieldStats |-> invalidFieldStats,
     errorCode |-> "UNKNOWN", message |-> error]

\* the result of the catch of runCsvAggregation
Caught(error) ==
    [returned |-> TRUE, success |-> FALSE, processedRows |-> 0,
     skippedRows |-> 0, invalidFieldStats |-> EmptyStats,
     errorCode |-> "UNKNOWN", message |-> error]

MissingColumnsFailure(missingColumns) ==
    [returned |-> TRUE, success |-> FALSE, processedRows |-> 0,
     skippedRows |-> 0, invalidFieldStats |-> EmptyStats,
     errorCode |-> "MISSING_COLUMNS", missingColumns |-> missingColumns]

Success_failedKeysOnly ==
    [returned |-> TRUE, success |-> TRUE, outputPath |-> outputPath,
     processedRows |-> processedRows, skippedRows |-> skippedRows,
     invalidFieldStats |->
        [k \in {c \in DOMAIN invalidFieldStats : invalidFieldStats[c] > 0} |->
            invalidFieldStats[k]]]

Success ==
    [returned |-> TRUE, success |-> TRUE, outputPath |-> outputPath,
     processedRows |-> processedRows, skippedRows |-> skippedRows,
     invalidFieldStats |-> invalidFieldStats]

passVars == <<cursor, isHeader, processedRows, skippedRows, invalidFieldStats,
              buckets>>

outVars == <<options, outputRows>>

mergeVars == <<mergeTarget, mergePending>>

\* the variables of the operations that are modelled on their own
detectVars == <<sample, best>>

headVars == <<stream, delivered, destroyed, closed, chunks, total, headBuffer>>

raceVars == <<runs, contents>>

sideVars == <<detectVars, headVars, raceVars>>

NoDelimiter == "none"

\* the promise of readFileHeadBuffer is pending
Pending == [state |-> "pending"]

DetectIdle ==
    /\ sample = <<>>
    /\ best = NoDelimiter

HeadIdle ==
    /\ stream = <<>>
    /\ delivered = 0
    /\ destroyed = FALSE
    /\ closed = FALSE
    /\ chunks = <<>>
    /\ total = 0
    /\ headBuffer = Pending

RaceIdle ==
    /\ runs = <<>>
    /\ contents = <<>>

\* no such operation has been called
SideIdle == DetectIdle /\ HeadIdle /\ RaceIdle

\* The options of the calls
OPTIONS ==
    {NO_OPTIONS}
    \cup {[includeDailySubtotalRows |-> o[1], includeGrandTotalRow |-> o[2],
           blankDateForDetailRowsWhenSubtotalEnabled |-> o[3]] :
            o \in {<<"true", "true", "true">>,
                   <<"true", "true", "false">>,
                   <<"true", "undefined", "undefined">>,
                   <<"true", "false", "false">>,
                   <<"false", "true", "undefined">>,
                   <<"undefined", "true", "false">>,
                   <<"false", "false", "true">>}}

Init ==
    /\ fileExists \in BOOLEAN
    /\ IF fileExists
       THEN \E sc \in Scenarios : file = sc[1] /\ dir = sc[2]
       ELSE file = NO_FILE /\ dir \in Dirs
    /\ pc = "idle"
    /\ preview = NoValidation
    /\ validation = NoValidation
    /\ cursor = 0
    /\ isHeader = TRUE
    /\ processedRows = 0
    /\ skippedRows = 0
    /\ invalidFieldStats = InitialStats
    /\ buckets = <<>>
    /\ outputPath = NoPath
    /\ result = NoResult
    /\ options = NO_OPTIONS
    /\ outputRows = <<>>
    /\ mergeTarget = createEmptyBucket(<<>>, <<>>)
    /\ mergePending = <<>>
    /\ SideIdle

\* A call of previewAndValidateCsv by the user interface
PreviewCall ==
    /\ pc = "idle"
    /\ ~validation.returned
    /\ validation' = previewAndValidateCsv(fileExists, file)
    /\ UNCHANGED <<outVars, mergeVars, sideVars, fileExists, file, dir, pc, preview, passVars, outputPath, result>>

\* the promise of a call of previewAndValidateCsv that rejected
RejectedValidation == [returned |-> FALSE, rejected |-> TRUE]

\* A call of previewAndValidateCsv by the user interface for a path that
\* exists and cannot be read (a directory, a file without read permission,
\* a file removed after existsSync): the read stream of readFileHeadBuffer
\* emits 'error', detectCsv rejects, and nothing catches
PreviewCallRejected ==
    /\ pc = "idle"
    /\ ~validation.returned
    /\ fileExists
    /\ validation' = RejectedValidation
    /\ UNCHANGED <<outVars, mergeVars, sideVars, fileExists, file, dir, pc, preview, passVars, outputPath, result>>

\* runCsvAggregation up to its first await
RunStart ==
    /\ pc = "idle"
    /\ IF ~fileExists
       THEN /\ result' = Failure("FILE_NOT_FOUND")
            /\ pc' = "done"
       ELSE /\ pc' = "previewing"
            /\ UNCHANGED result
    /\ UNCHANGED <<outVars, mergeVars, sideVars, fileExists, file, dir, preview, validation, passVars, outputPath>>

\* previewAndValidateCsv resolves inside runCsvAggregation; parseDataRows
\* starts when the required columns are there
PreviewResolved ==
    /\ pc = "previewing"
    /\ preview' = previewAndValidateCsv(fileExists, file)
    /\ IF ~preview'.requiredColumnsFound
       THEN /\ result' = MissingColumnsFailure(preview'.missingColumns)
            /\ pc' = "done"
       ELSE /\ pc' = "streaming"
            /\ UNCHANGED result
    /\ UNCHANGED <<outVars, mergeVars, sideVars, fileExists, file, dir, validation, passVars, outputPath>>

\* reading the prefix fails: the catch of runCsvAggregation
PreviewRejected ==
    /\ pc = "previewing"
    /\ result' = Caught(ERROR_PREFIX_READ)
    /\ pc' = "done"
    /\ UNCHANGED <<outVars, mergeVars, sideVars, fileExists, file, dir, preview, validation, passVars, outputPath>>

\* parser.on('readable'): one record read
OnRecord ==
    /\ pc = "streaming"
    /\ cursor < Len(file.records)
    /\ cursor' = cursor + 1
    /\ LET normalizedHeader ==
               NormalizeAll(IF Len(preview.previewRows) > 0
                            THEN preview.previewRows[1] ELSE <<>>)
           st == ReadableStep(file.records[cursor + 1], normalizedHeader,
                     [isHeader |-> isHeader,
                      processedRows |-> processedRows,
                      skippedRows |-> skippedRows,
                      invalidFieldStats |-> invalidFieldStats,
                      buckets |-> buckets])
       IN  /\ isHeader' = st.isHeader
           /\ processedRows' = st.processedRows
           /\ skippedRows' = st.skippedRows
           /\ invalidFieldStats' = st.invalidFieldStats
           /\ buckets' = st.buckets
    /\ UNCHANGED <<outVars, mergeVars, sideVars, fileExists, file, dir, pc, preview, validation, outputPath, result>>

\* parser.on('end'): parseDataRows resolves, the output path is chosen and
\* writeOutputFile starts
ParserEnd ==
    /\ pc = "streaming"
    /\ cursor = Len(file.records)
    /\ \E opts \in OPTIONS :
          /\ options' = opts
          /\ outputRows' = buildOutputRows(buckets, opts)
    /\ \E now \in NOW_VALUES : outputPath' = getNextAvailableOutputPath(dir, now)
    /\ pc' = "writing"
    /\ UNCHANGED <<mergeVars, sideVars, fileExists, file, dir, preview, validation, passVars, result>>

\* the read stream or the parser fails: the catch of runCsvAggregation
StreamError ==
    /\ pc = "streaming"
    /\ result' = Caught(ERROR_STREAM)
    /\ pc' = "done"
    /\ UNCHANGED <<outVars, mergeVars, sideVars, fileExists, file, dir, preview, validation, passVars, outputPath>>

\* writer.on('finish'): runCsvAggregation returns, and its options and
\* outputRows are gone with the call
WriterFinish ==
    /\ pc = "writing"
    /\ dir' = Created(dir, outputPath)
    /\ result' = Success
    /\ pc' = "done"
    /\ options' = NO_OPTIONS
    /\ outputRows' = <<>>
    /\ UNCHANGED <<mergeVars, sideVars, fileExists, file, preview, validation, passVars, outputPath>>

WriterError_reportsSuccess ==
    /\ pc = "writing"
    /\ \/ dir' = dir
       \/ dir' = Created(dir, outputPath)
    /\ result' = Success
    /\ pc' = "done"
    /\ options' = NO_OPTIONS
    /\ outputRows' = <<>>
    /\ UNCHANGED <<mergeVars, sideVars, fileExists, file, preview, validation, passVars, outputPath>>

\* the writer, the stringifier or the transcoder fails, before or after the
\* output file was created: the catch of runCsvAggregation
WriterError ==
    /\ pc = "writing"
    /\ \/ dir' = dir
       \/ dir' = Created(dir, outputPath)
    /\ result' = Caught(ERROR_WRITE)
    /\ pc' = "done"
    /\ options' = NO_OPTIONS
    /\ outputRows' = <<>>
    /\ UNCHANGED <<mergeVars, sideVars, fileExists, file, preview, validation, passVars, outputPath>>

Next ==
    \/ PreviewCall
    \/ PreviewCallRejected
    \/ RunStart
    \/ PreviewResolved
    \/ PreviewRejected
    \/ OnRecord
    \/ ParserEnd
    \/ StreamError
    \/ WriterFinish
    \/ WriterError

Spec == Init /\ [][Next]_vars

(***************************************************************************)
(* What the input holds, read off the rows it was laid out from            *)
(***************************************************************************)
\* the header has a cell standing for the column
HeaderHas(f, col) == \E i \in 1..Len(f.header) : f.header[i].col = col

\* data row n has a cell under the column
RowHas(f, n, col) ==
    \E i \in 1..Len(f.header) : f.header[i].col = col /\ i <= f.rows[n].width

TimeField(f, n) == IF RowHas(f, n, COL_TIME) THEN f.rows[n].time ELSE <<>>

NetworkField(f, n) ==
    IF RowHas(f, n, COL_NETWORK) THEN Trim(f.rows[n].network) ELSE <<>>

\* the parsed value of the i-th numeric column of data row n
NumericField(f, n, i) ==
    IF RowHas(f, n, NUMERIC_COLUMNS[i])
    THEN parseNumeric(f.rows[n].nums[i]) ELSE NullNumber

RowDay(f, n) == parseDateToDay(TimeField(f, n))

TimeInvalid(f, n) == ~RowDay(f, n).valid

NetworkInvalid(f, n) == RowDay(f, n).valid /\ NetworkField(f, n) = <<>>

RowValid(f, n) == RowDay(f, n).valid /\ NetworkField(f, n) # <<>>

\* the step reads data row n
ReadsRow(n) == pc = "streaming" /\ cursor = n /\ n >= 1 /\ cursor' = n + 1

\* the sum and count fields of the bucket of (day, network), 0 without one
BucketValue(bs, day, network, key) ==
    LET hits == {i \in 1..Len(bs) :
                    bs[i].bucket.date = day /\ bs[i].bucket.network = network}
    IN  IF hits = {} THEN 0 ELSE bs[CHOOSE i \in hits : TRUE].bucket[key]

\* the sum of the function fn over the set S
RECURSIVE SumOver(_, _)
SumOver(S, fn) ==
    IF S = {} THEN 0
    ELSE LET x == CHOOSE y \in S : TRUE IN fn[x] + SumOver(S \ {x}, fn)

FieldKeys == <<"flowSum", "maxUserSum", "ulPrbSum", "dlPrbSum", "ulRateSum",
               "dlRateSum", "accessRateSum", "dropRateSum", "handoverRateSum",
               "interferenceSum">>

CountKeys == <<"", "", "ulPrbCount", "dlPrbCount", "ulRateCount", "dlRateCount",
               "accessRateCount", "dropRateCount", "handoverRateCount",
               "interferenceCount">>

(***************************************************************************)
(* Claims                                                                  *)
(***************************************************************************)

\* C1: a data row whose time field is empty or yields no valid day changes
\* no bucket and increments exactly the time invalid counter and
\* skippedRows by 1, besides processedRows; no other counter changes.
C1_TimeInvalidRowIsOnlyCounted ==
    [][\A n \in 1..Len(file.rows) :
          (ReadsRow(n) /\ TimeInvalid(file, n)) =>
              /\ buckets' = buckets
              /\ processedRows' = processedRows + 1
              /\ skippedRows' = skippedRows + 1
              /\ invalidFieldStats' = [invalidFieldStats EXCEPT ![COL_TIME] = @ + 1]]_vars

C1_Witness ==
    /\ pc = "streaming" /\ cursor = 3
    /\ RowValid(file, 1) /\ TimeInvalid(file, 2)
    /\ TimeField(file, 2) # <<>>
    /\ skippedRows = 1 /\ invalidFieldStats[COL_TIME] = 1 /\ Len(buckets) = 1

\* C2: a data row with a valid day and a network that is empty after
\* trimming increments the network invalid counter and skippedRows by 1
\* and changes no bucket; a row with an invalid time and an empty network
\* increments the time counter only, and skippedRows once.
C2_EmptyNetworkRowIsOnlyCounted ==
    [][\A n \in 1..Len(file.rows) :
          /\ (ReadsRow(n) /\ NetworkInvalid(file, n)) =>
                /\ buckets' = buckets
                /\ skippedRows' = skippedRows + 1
                /\ invalidFieldStats' =
                       [invalidFieldStats EXCEPT ![COL_NETWORK] = @ + 1]
          /\ (ReadsRow(n) /\ TimeInvalid(file, n) /\ NetworkField(file, n) = <<>>) =>
                /\ invalidFieldStats'[COL_NETWORK] = invalidFieldStats[COL_NETWORK]
                /\ invalidFieldStats'[COL_TIME] = invalidFieldStats[COL_TIME] + 1
                /\ skippedRows' = skippedRows + 1]_vars

C2_Witness ==
    /\ pc = "streaming" /\ cursor = 3
    /\ NetworkInvalid(file, 1)
    /\ TimeInvalid(file, 2) /\ NetworkField(file, 2) = <<>>
    /\ skippedRows = 2
    /\ invalidFieldStats[COL_NETWORK] = 1 /\ invalidFieldStats[COL_TIME] = 1

\* C3: for a data row with a valid day and network, every numeric field
\* that fails to parse increments exactly its own invalid counter and
\* never skippedRows, and every field that parses is added to the bucket
\* of the row's (day, network).
C3_BadFieldsCountedGoodFieldsAdded ==
    [][\A n \in 1..Len(file.rows) :
          (ReadsRow(n) /\ RowValid(file, n)) =>
              LET day == RowDay(file, n).day
                  network == NetworkField(file, n)
              IN  /\ skippedRows' = skippedRows
                  /\ invalidFieldStats'[COL_TIME] = invalidFieldStats[COL_TIME]
                  /\ invalidFieldStats'[COL_NETWORK] = invalidFieldStats[COL_NETWORK]
                  /\ \A i \in 1..10 :
                        LET v == NumericField(file, n, i)
                            col == NUMERIC_COLUMNS[i]
                            was == BucketValue(buckets, day, network, FieldKeys[i])
                            is == BucketValue(buckets', day, network, FieldKeys[i])
                        IN  IF v.isNull
                            THEN /\ invalidFieldStats'[col] = invalidFieldStats[col] + 1
                                 /\ is = was
                            ELSE /\ invalidFieldStats'[col] = invalidFieldStats[col]
                                 /\ is = was + v.num]_vars

C3_Witness ==
    /\ pc = "streaming" /\ cursor = 2
    /\ RowValid(file, 1)
    /\ NumericField(file, 1, 2).isNull /\ ~NumericField(file, 1, 4).isNull
    /\ skippedRows = 0
    /\ invalidFieldStats[COL_MAXUSER] = 1 /\ invalidFieldStats[COL_DLPRB] = 0
    /\ Len(buckets) = 1 /\ buckets[1].bucket.dlPrbSum = NumericField(file, 1, 4).num

\* C4: processedRows is the number of records read after the first one;
\* the header is never counted, every later record is counted once, and
\* a run over a file with only a header ends with processedRows = 0.
C4_ProcessedRowsCountsDataRecords ==
    /\ isHeader = (cursor = 0)
    /\ processedRows = IF cursor = 0 THEN 0 ELSE cursor - 1
    /\ (result.returned /\ result.success) =>
           result.processedRows = Len(file.records) - 1

C4_Witness ==
    /\ result.returned /\ result.success
    /\ Len(file.records) = 3 /\ result.processedRows = 2
    /\ result.skippedRows = 1

C4_WitnessHeaderOnly ==
    /\ result.returned /\ result.success
    /\ Len(file.records) = 1 /\ result.processedRows = 0

\* C5: when the streaming pass has ended there is exactly one bucket per
\* distinct (day, network) of the rows that were not skipped; each sum
\* field is the sum of the parsed values of the bucket's rows and each
\* count is the number of the bucket's rows whose value parsed.
RowsOf(f, day, network) ==
    {n \in 1..Len(f.rows) :
        RowValid(f, n) /\ RowDay(f, n).day = day /\ NetworkField(f, n) = network}

C5_BucketsHoldTheSumsOfTheirRows ==
    (pc = "writing") =>
        /\ \A i, j \in 1..Len(buckets) :
              (buckets[i].bucket.date = buckets[j].bucket.date
               /\ buckets[i].bucket.network = buckets[j].bucket.network) => i = j
        /\ {<<buckets[i].bucket.date, buckets[i].bucket.network>> : i \in 1..Len(buckets)}
             = {<<RowDay(file, n).day, NetworkField(file, n)>> :
                   n \in {m \in 1..Len(file.rows) : RowValid(file, m)}}
        /\ \A b \in 1..Len(buckets) :
              LET bucket == buckets[b].bucket
                  rows == RowsOf(file, bucket.date, bucket.network)
              IN  \A i \in 1..10 :
                     LET Val == [n \in rows |->
                                   IF NumericField(file, n, i).isNull THEN 0
                                   ELSE NumericField(file, n, i).num]
                         One == [n \in rows |->
                                   IF NumericField(file, n, i).isNull THEN 0 ELSE 1]
                     IN  /\ bucket[FieldKeys[i]] = SumOver(rows, Val)
                         /\ i > 2 => bucket[CountKeys[i]] = SumOver(rows, One)

C5_Witness ==
    /\ pc = "writing"
    /\ Len(buckets) = 1 /\ Len(file.rows) = 2
    /\ RowValid(file, 1) /\ RowValid(file, 2)
    /\ buckets[1].bucket.ulPrbCount = 1
    /\ buckets[1].bucket.dlPrbCount = 2
    /\ buckets[1].bucket.flowSum > 20

\* C6: when the header lacks a required column, the preview reports
\* requiredColumnsFound = false with the column among missingColumns, and
\* the run returns MISSING_COLUMNS with the list; no data row is processed,
\* no output path is selected and nothing is written.
HeaderLacks(f) == \E c \in SeqRange(REQUIRED_COLUMNS) : ~HeaderHas(f, c)

LackingColumns(f) ==
    SelectSeq(REQUIRED_COLUMNS, LAMBDA c : ~HeaderHas(f, c))

C6_Stopped ==
    /\ validation.returned =>
          /\ ~validation.requiredColumnsFound
          /\ validation.missingColumns = LackingColumns(file)
    /\ (result.returned /\ preview.returned) =>
          /\ ~result.success
          /\ result.errorCode = "MISSING_COLUMNS"
          /\ result.missingColumns = LackingColumns(file)
          /\ result.processedRows = 0
          /\ "outputPath" \notin DOMAIN result
    /\ pc \notin {"streaming", "writing"}
    /\ cursor = 0 /\ processedRows = 0 /\ buckets = <<>>
    /\ outputPath = NoPath

C6_MissingColumnsStopTheRun ==
    [][(fileExists /\ HeaderLacks(file)) =>
          (C6_Stopped /\ C6_Stopped' /\ dir' = dir)]_vars

C6_Witness ==
    /\ fileExists /\ HeaderLacks(file) /\ Len(file.rows) = 2
    /\ validation.returned /\ validation.missingColumns = <<COL_DLPRB>>
    /\ result.returned /\ result.errorCode = "MISSING_COLUMNS"

\* C7: when the input path does not exist, the preview returns
\* requiredColumnsFound = false, all 14 required columns missing in
\* canonical order, encoding utf-8, delimiter comma and an empty preview;
\* the run returns FILE_NOT_FOUND and writes nothing; neither call raises.
C7_Returned ==
    /\ validation.returned =>
          validation = [returned |-> TRUE, encoding |-> "utf-8",
                        delimiter |-> ",", previewRows |-> <<>>,
                        requiredColumnsFound |-> FALSE,
                        missingColumns |-> REQUIRED_COLUMNS]
    /\ result.returned =>
          /\ ~result.success
          /\ result.errorCode = "FILE_NOT_FOUND"
    /\ pc \in {"idle", "done"}
    /\ pc = "done" => result.returned
    /\ outputPath = NoPath

C7_MissingInputIsReported ==
    [][~fileExists => (C7_Returned /\ C7_Returned' /\ dir' = dir)]_vars

C7_Witness ==
    /\ ~fileExists
    /\ validation.returned /\ Len(validation.missingColumns) = 14
    /\ result.returned /\ result.errorCode = "FILE_NOT_FOUND"
    /\ dir.base

\* C8: the output path that is selected is the base name when it is free,
\* otherwise the indexed name with the smallest free index below the limit,
\* otherwise the timestamp name; and in each of the three cases the selected
\* path does not exist at the time of the selection.
C8_SelectedPathDoesNotExist ==
    (pc = "writing") =>
        /\ outputPath.kind \in {"base", "index", "timestamp"}
        /\ ~Exists(dir, BasePath) => outputPath = BasePath
        /\ outputPath.kind = "index" =>
              /\ Exists(dir, BasePath)
              /\ outputPath.index \in 1..(MAX_INDEX - 1)
              /\ \A j \in 1..(outputPath.index - 1) : Exists(dir, IndexPath(j))
        /\ outputPath.kind = "timestamp" =>
              /\ Exists(dir, BasePath)
              /\ \A j \in 1..(MAX_INDEX - 1) : Exists(dir, IndexPath(j))
        /\ ~Exists(dir, outputPath)

\* C9: when the base output name exists next to a valid input, the run
\* returns the failure OUTPUT_EXISTS and has processed no row.
C9_AbortsWhenOutputExists ==
    (/\ pc = "done"
     /\ preview.returned /\ preview.requiredColumnsFound
     /\ Exists(dir, BasePath) /\ outputPath # BasePath
     /\ (result.success \/ result.errorCode # "UNKNOWN"))
    => (/\ ~result.success
        /\ result.errorCode = "OUTPUT_EXISTS"
        /\ processedRows = 0)

(***************************************************************************)
(* The header validation over edited headers                               *)
(***************************************************************************)
MaxEdits == 2

\* The canonical header in reverse order with an extra column in the middle
HEADER_REVERSED_EXTRA ==
    [i \in 1..15 |->
        IF i < 8 THEN HEADER_CANONICAL[15 - i]
        ELSE IF i = 8 THEN HeaderCell(EXTRA_COLUMN, EXTRA_COLUMN)
        ELSE HEADER_CANONICAL[16 - i]]

HEADER_EDITS == {"drop", "bom", "fullwidth", "spaces", "inner_bom", "junk"}

\* The cell of a required column written in another form. A BOM after the
\* first token of a one-token name is trailing white space; inside a longer
\* name it is white space between two tokens, and so is another name.
EditedCell(cell, edit) ==
    CASE edit = "bom" -> HeaderCell(cell.col, <<BOM>> \o cell.text)
      [] edit = "fullwidth" -> HeaderCell(cell.col, FullWidth(cell.text))
      [] edit = "spaces" ->
            HeaderCell(cell.col, <<" ", " ">> \o cell.text \o <<"\t", " ">>)
      [] edit = "inner_bom" ->
            HeaderCell(IF Len(cell.text) = 1 THEN cell.col ELSE EXTRA_COLUMN,
                       <<Head(cell.text), BOM>> \o Tail(cell.text))
      [] edit = "junk" -> HeaderCell(EXTRA_COLUMN, cell.text \o <<"x">>)

\* The required columns that are edited together: one-token names and
\* names with brackets
EDITED_TOGETHER == {1, 2, 3, 5, 6, 8, 14}

\* The plans: an edit of any one required column, or an edit for each of
\* at most MaxEdits of the columns edited together
EditPlans ==
    UNION {[S -> HEADER_EDITS] :
             S \in {T \in SUBSET (1..Len(REQUIRED_COLUMNS)) :
                      /\ Cardinality(T) <= MaxEdits
                      /\ Cardinality(T) <= 1 \/ T \subseteq EDITED_TOGETHER}}

RequiredPos(col) ==
    CHOOSE i \in 1..Len(REQUIRED_COLUMNS) : REQUIRED_COLUMNS[i] = col

ApplyPlan(header, plan) ==
    LET Planned(cell) == /\ cell.col # EXTRA_COLUMN
                         /\ RequiredPos(cell.col) \in DOMAIN plan
        Kept(cell) == ~(Planned(cell) /\ plan[RequiredPos(cell.col)] = "drop")
        Edit(cell) == IF Planned(cell)
                      THEN EditedCell(cell, plan[RequiredPos(cell.col)])
                      ELSE cell
        kept == SelectSeq(header, Kept)
    IN  [i \in 1..Len(kept) |-> Edit(kept[i])]

EditedHeaders ==
    {ApplyPlan(h, plan) :
        h \in {HEADER_CANONICAL, HEADER_REVERSED_EXTRA}, plan \in EditPlans}

InitHeader ==
    /\ fileExists = TRUE
    /\ file \in {MkFile("utf-8", ",", h, <<>>) : h \in EditedHeaders}
    /\ dir = DIR_FREE
    /\ pc = "idle"
    /\ preview = NoValidation
    /\ validation = NoValidation
    /\ cursor = 0
    /\ isHeader = TRUE
    /\ processedRows = 0
    /\ skippedRows = 0
    /\ invalidFieldStats = InitialStats
    /\ buckets = <<>>
    /\ outputPath = NoPath
    /\ result = NoResult
    /\ options = NO_OPTIONS
    /\ outputRows = <<>>
    /\ mergeTarget = createEmptyBucket(<<>>, <<>>)
    /\ mergePending = <<>>
    /\ SideIdle

NextHeader == PreviewCall

SpecHeader == InitHeader /\ [][NextHeader]_vars

\* C10: for every header (any order, extra columns, white space, full-width
\* brackets, leading BOM) requiredColumnsFound is true exactly when each of
\* the 14 required names, normalized, equals some normalized header cell;
\* missingColumns is exactly the absent required columns in canonical
\* order, and a header with only a part of the columns never passes.
C10_RequiredFoundIffAllPresent ==
    validation.returned =>
        LET cells == {normalizeHeader(file.records[1][i]) :
                          i \in 1..Len(file.records[1])}
            Absent(column) == normalizeHeader(column) \notin cells
        IN  /\ validation.requiredColumnsFound <=>
                  (\A column \in SeqRange(REQUIRED_COLUMNS) : ~Absent(column))
            /\ validation.missingColumns = SelectSeq(REQUIRED_COLUMNS, Absent)
            /\ validation.missingColumns = LackingColumns(file)
            /\ validation.requiredColumnsFound <=>
                  (validation.missingColumns = <<>>)

C10_Witness ==
    /\ validation.returned /\ validation.requiredColumnsFound
    /\ Len(file.header) = 15
    /\ file.header[1].col = COL_INTERFERENCE
    /\ \E i, j \in 1..15 :
          /\ Head(file.header[i].text) = BOM
          /\ FWL \in SeqRange(file.header[j].text)

(***************************************************************************)
(* Merging buckets in any order                                            *)
(***************************************************************************)
MaxBuckets == 3

NET_NS == <<"N", "S">>

\* The entry of buckets that parseDataRows makes of one data row under the
\* canonical header
EntryOfRow(r) ==
    HandleDataRow(Layout(HEADER_CANONICAL, r), REQUIRED_COLUMNS,
                  [isHeader |-> FALSE, processedRows |-> 0, skippedRows |-> 0,
                   invalidFieldStats |-> InitialStats,
                   buckets |-> <<>>]).buckets[1]

\* Rows of three networks on one day and of one network on another, their
\* flow 1 or 10^16
MERGE_ROWS ==
    {DataRow(tn[1], tn[2],
             [i \in 1..10 |-> IF i = 1 THEN flow
                              ELSE IF i = 4 THEN BadNum(i) ELSE PlainNum(i)],
             15) :
        tn \in {<<TIME_D1_SECONDS, NET_NS>>, <<TIME_D1_SECONDS, NET_NSA>>,
                <<TIME_D1_SECONDS, NET_SA>>, <<TIME_D2_PLAIN, NET_SA>>},
        flow \in {<<"1">>, LITERAL_1E16}}

MERGE_POOL == {EntryOfRow(r) : r \in MERGE_ROWS}

\* The bucket maps of at most MaxBuckets entries, in any order of creation
BucketLists ==
    {bs \in UNION {[1..n -> MERGE_POOL] : n \in 0..MaxBuckets} :
        \A i, j \in 1..Len(bs) : bs[i].key = bs[j].key => i = j}

OrdersOf(list) ==
    {[i \in 1..Len(list) |-> list[p[i]]] :
        p \in {q \in [1..Len(list) -> 1..Len(list)] :
                 \A i, j \in 1..Len(list) : q[i] = q[j] => i = j}}

\* A subtotal bucket when the buckets are of one date, or the grand total
MergeTargets(bs) ==
    {createEmptyBucket(<<>>, <<>>)}
    \cup {createEmptyBucket(bs[1].bucket.date, <<>>) : i \in
            {i \in {1} : /\ Len(bs) > 0
                           /\ \A j \in 1..Len(bs) :
                                 bs[j].bucket.date = bs[1].bucket.date}}

InitMerge ==
    /\ fileExists = TRUE
    /\ file = MkFile("utf-8", ",", HEADER_CANONICAL, <<>>)
    /\ dir = DIR_FREE
    /\ pc = "idle"
    /\ preview = NoValidation
    /\ validation = NoValidation
    /\ cursor = 0
    /\ isHeader = TRUE
    /\ processedRows = 0
    /\ skippedRows = 0
    /\ invalidFieldStats = InitialStats
    /\ buckets \in BucketLists
    /\ outputPath = NoPath
    /\ result = NoResult
    /\ options = NO_OPTIONS
    /\ outputRows = <<>>
    /\ mergeTarget \in MergeTargets(buckets)
    /\ mergePending \in OrdersOf(BucketValues(buckets))
    /\ SideIdle

\* mergeBucket(target, item) for the next item
MergeStep ==
    /\ mergePending # <<>>
    /\ mergeTarget' = mergeBucket(mergeTarget, Head(mergePending))
    /\ mergePending' = Tail(mergePending)
    /\ UNCHANGED <<outVars, sideVars, fileExists, file, dir, pc, preview, validation,
                   passVars, outputPath, result>>

NextMerge == MergeStep

SpecMerge == InitMerge /\ [][NextMerge]_vars

\* C11: merging the buckets of one date into an empty bucket in any order
\* yields the same subtotal bucket, every sum and count equal, and the same
\* subtotal row, as merging them in sorted order; and so does the
\* grand-total merge over all buckets.
C11_MergeOrderDoesNotMatter ==
    (mergePending = <<>>) =>
        LET inSortedOrder ==
                MergeAll(createEmptyBucket(mergeTarget.date, <<>>),
                         SortBuckets(BucketValues(buckets)))
        IN  /\ \A k \in SeqRange(MERGED_FIELDS) :
                  mergeTarget[k] = inSortedOrder[k]
            /\ toOutputRow(mergeTarget, mergeTarget.date, <<>>)
                 = toOutputRow(inSortedOrder, mergeTarget.date, <<>>)

(***************************************************************************)
(* What the output is to hold, read off the rows of the input              *)
(***************************************************************************)
\* What the n-th data row of the file holds: whether it reaches a bucket,
\* its day and network, and the values of its numeric columns
RECURSIVE NumericFacts(_, _, _)
NumericFacts(f, n, i) ==
    IF i = 0 THEN <<>>
    ELSE Append(NumericFacts(f, n, i - 1), NumericField(f, n, i))

RowFact(f, n) ==
    [valid |-> RowValid(f, n),
     day |-> IF RowDay(f, n).valid THEN RowDay(f, n).day ELSE <<>>,
     network |-> NetworkField(f, n),
     nums |-> NumericFacts(f, n, 10)]

RECURSIVE RowFactsUpTo(_, _)
RowFactsUpTo(f, n) ==
    IF n = 0 THEN <<>> ELSE Append(RowFactsUpTo(f, n - 1), RowFact(f, n))

RowFacts(f) == RowFactsUpTo(f, Len(f.rows))

ValidRows(facts) == {n \in 1..Len(facts) : facts[n].valid}

RowsOfDay(facts, day) == {n \in ValidRows(facts) : facts[n].day = day}

\* the texts of S in ascending order
RECURSIVE Ascending(_)
Ascending(S) ==
    IF S = {} THEN <<>>
    ELSE LET least == CHOOSE x \in S :
                          \A y \in S : localeCompare(x, y) <= 0
         IN  <<least>> \o Ascending(S \ {least})

DaysOf(facts) == Ascending({facts[n].day : n \in ValidRows(facts)})

NetworksOf(facts, day) ==
    Ascending({facts[n].network : n \in RowsOfDay(facts, day)})

Group(kind, time, network, rows) ==
    [kind |-> kind, time |-> time, network |-> network, rows |-> rows]

\* one detail row for each network of the day
RECURSIVE DetailGroups(_, _, _, _)
DetailGroups(facts, day, time, networks) ==
    IF networks = <<>> THEN <<>>
    ELSE <<Group("detail", time, Head(networks),
                 {n \in RowsOfDay(facts, day) :
                     facts[n].network = Head(networks)})>>
         \o DetailGroups(facts, day, time, Tail(networks))

RECURSIVE DayGroups(_, _, _)
DayGroups(facts, days, opts) ==
    IF days = <<>> THEN <<>>
    ELSE (IF opts.includeDailySubtotalRows = "true"
          THEN <<Group("subtotal", Head(days), <<>>,
                       RowsOfDay(facts, Head(days)))>>
               \o DetailGroups(facts, Head(days),
                     IF opts.blankDateForDetailRowsWhenSubtotalEnabled = "false"
                     THEN Head(days) ELSE <<>>,
                     NetworksOf(facts, Head(days)))
          ELSE DetailGroups(facts, Head(days), Head(days),
                            NetworksOf(facts, Head(days))))
         \o DayGroups(facts, Tail(days), opts)

\* the rows the output is to have: which it is, its time and network, and
\* the data rows it stands for
ExpectedGroups(facts, opts) ==
    DayGroups(facts, DaysOf(facts), opts)
    \o (IF opts.includeGrandTotalRow = "true"
        THEN <<Group("grand", GRAND_TOTAL_LABEL, <<>>, ValidRows(facts))>>
        ELSE <<>>)

\* the sum of the parsed values of the i-th numeric column over the rows
ValueSum(facts, rows, i) ==
    SumOver(rows, [n \in rows |-> IF facts[n].nums[i].isNull THEN 0
                                  ELSE facts[n].nums[i].num])

\* the number of the rows whose i-th numeric column parsed
ValueCount(facts, rows, i) ==
    Cardinality({n \in rows : ~facts[n].nums[i].isNull})

\* the output rows have been built
RowsBuilt == pc = "writing"

\* C12: in every output row (detail, subtotal, grand total) an averaged
\* field without a valid observation is the empty string, never 0 or NaN,
\* also in a subtotal or grand-total row merged from buckets that all have
\* no observation of the field.
C12_AverageWithoutObservationIsEmpty ==
    RowsBuilt =>
        LET facts == RowFacts(file)
            groups == ExpectedGroups(facts, options)
        IN  /\ Len(outputRows) = Len(groups)
            /\ \A i \in 1..Len(groups) : \A k \in 3..10 :
                  ValueCount(facts, groups[i].rows, k) = 0
                     => outputRows[i][NUMERIC_COLUMNS[k]] = <<>>

C12_Witness ==
    /\ RowsBuilt
    /\ options.includeDailySubtotalRows = "true"
    /\ options.includeGrandTotalRow = "true"
    /\ Len(buckets) = 2 /\ Len(outputRows) = 4
    /\ \A i \in 1..4 : outputRows[i][COL_ULPRB] = <<>>
    /\ outputRows[1][COL_NETWORK] = <<>>
    /\ outputRows[1][COL_DLPRB] # <<>>
    /\ outputRows[4][COL_TIME] = GRAND_TOTAL_LABEL

\* the value of a rendered number in millionths; a blank counts as 0
PointAt(text) ==
    IF \E i \in 1..Len(text) : text[i] = "."
    THEN CHOOSE i \in 1..Len(text) : text[i] = "."
    ELSE Len(text) + 1

UnsignedMicro(text) ==
    LET fraction == SubSeq(text, PointAt(text) + 1, Len(text))
    IN  (DigitsValue(SubSeq(text, 1, PointAt(text) - 1)) * (10 ^ 6))
        + (DigitsValue(fraction) * (10 ^ (6 - Len(fraction))))

ParseMicro(text) ==
    IF text = <<>> THEN 0
    ELSE IF text[1] = "-" THEN 0 - UnsignedMicro(Tail(text))
    ELSE UnsignedMicro(text)

\* the value of the k-th numeric column of the i-th output row
RowValue(i, k) == ParseMicro(outputRows[i][NUMERIC_COLUMNS[k]])

\* the positions of the rows of a kind, and of the detail rows of the day
\* of the subtotal row at s
RowsOfKind(groups, kind) == {i \in 1..Len(groups) : groups[i].kind = kind}

DetailsUnder(groups, s) ==
    {j \in RowsOfKind(groups, "detail") : groups[j].rows \subseteq groups[s].rows}

BothTotalsEnabled ==
    /\ RowsBuilt
    /\ options.includeDailySubtotalRows = "true"
    /\ options.includeGrandTotalRow = "true"

\* the layout of the output with both options: one subtotal row for each
\* day, with a blank network, and the grand-total row last
TotalsLaidOut(groups) ==
    /\ Len(outputRows) = Len(groups)
    /\ \A s \in RowsOfKind(groups, "subtotal") :
          /\ outputRows[s][COL_TIME] = groups[s].time
          /\ outputRows[s][COL_NETWORK] = <<>>
    /\ outputRows[Len(outputRows)][COL_TIME] = GRAND_TOTAL_LABEL

\* the k-th numeric column of every subtotal row is the sum of that column
\* over the detail rows of its day, and that of the grand-total row the sum
\* over the subtotal rows
TotalsAreSums(groups, k) ==
    /\ \A s \in RowsOfKind(groups, "subtotal") :
          RowValue(s, k)
            = SumOver(DetailsUnder(groups, s),
                      [j \in DetailsUnder(groups, s) |-> RowValue(j, k)])
    /\ RowValue(Len(groups), k)
         = SumOver(RowsOfKind(groups, "subtotal"),
                   [s \in RowsOfKind(groups, "subtotal") |-> RowValue(s, k)])

\* the k-th numeric column of every subtotal row and of the grand-total
\* row is the mean of the valid observations of the rows it stands for
TotalsAreMeans(facts, groups, k) ==
    \A i \in RowsOfKind(groups, "subtotal") \cup {Len(groups)} :
        outputRows[i][NUMERIC_COLUMNS[k]]
          = formatAverage(ValueSum(facts, groups[i].rows, k),
                          ValueCount(facts, groups[i].rows, k))

RowHoldsValuesOf(facts, i, rows) ==
    /\ \A k \in 1..2 :
          outputRows[i][NUMERIC_COLUMNS[k]]
            = formatNumber(Whole(ValueSum(facts, rows, k)))
    /\ \A k \in 3..10 :
          outputRows[i][NUMERIC_COLUMNS[k]]
            = formatAverage(ValueSum(facts, rows, k),
                            ValueCount(facts, rows, k))

\* the i-th output row comes before the j-th by date, then by network
RowBefore(i, j) ==
    \/ localeCompare(outputRows[i][COL_TIME], outputRows[j][COL_TIME]) < 0
    \/ /\ outputRows[i][COL_TIME] = outputRows[j][COL_TIME]
       /\ localeCompare(outputRows[i][COL_NETWORK],
                        outputRows[j][COL_NETWORK]) < 0

NoSubtotals == RowsBuilt /\ options.includeDailySubtotalRows # "true"

\* C14: without daily subtotals the output has exactly one detail row for
\* each bucket, by date ascending and then network ascending, each with the
\* date and the network of its bucket and the bucket's values, in whatever
\* order the buckets were created.
C14_OneDetailRowPerBucketInOrder ==
    NoSubtotals =>
        LET facts == RowFacts(file)
            groups == ExpectedGroups(facts, options)
            details == 1..Len(buckets)
        IN  /\ Len(outputRows) = Len(groups)
            /\ RowsOfKind(groups, "detail") = details
            /\ RowsOfKind(groups, "subtotal") = {}
            /\ \A b \in details : \E i \in details :
                  /\ outputRows[i][COL_TIME] = buckets[b].bucket.date
                  /\ outputRows[i][COL_NETWORK] = buckets[b].bucket.network
            /\ \A i, j \in details : i < j => RowBefore(i, j)
            /\ \A i \in details :
                  /\ outputRows[i][COL_TIME] = groups[i].time
                  /\ outputRows[i][COL_NETWORK] = groups[i].network
                  /\ RowHoldsValuesOf(facts, i, groups[i].rows)

\* two buckets created in descending order come out in ascending order
C14_Witness ==
    /\ NoSubtotals
    /\ Len(buckets) = 2
    /\ CompareBuckets(buckets[1].bucket, buckets[2].bucket) > 0
    /\ outputRows[1][COL_TIME] = buckets[2].bucket.date
    /\ outputRows[1][COL_NETWORK] = buckets[2].bucket.network
    /\ outputRows[2][COL_NETWORK] = buckets[1].bucket.network

WithSubtotals == RowsBuilt /\ options.includeDailySubtotalRows = "true"

\* the subtotal row that opens the date group of the j-th row
OpeningRow(groups, j) ==
    CHOOSE s \in RowsOfKind(groups, "subtotal") :
        /\ s < j
        /\ \A t \in RowsOfKind(groups, "subtotal") : t < j => t <= s

\* C15: with daily subtotals the date groups come in ascending date order;
\* each group is its subtotal row (time = the date, network blank) and
\* then one detail row for each bucket of the date, in ascending network
\* order; a detail row's time is blank when
\* blankDateForDetailRowsWhenSubtotalEnabled is true or omitted and the
\* date when it is false.
C15_DateGroupsOpenWithTheirSubtotal ==
    WithSubtotals =>
        LET facts == RowFacts(file)
            groups == ExpectedGroups(facts, options)
            subtotals == RowsOfKind(groups, "subtotal")
            details == RowsOfKind(groups, "detail")
            dateOf(j) == outputRows[OpeningRow(groups, j)][COL_TIME]
        IN  /\ Len(outputRows) = Len(groups)
            /\ Cardinality(details) = Len(buckets)
            /\ Cardinality(subtotals)
                 = Cardinality({buckets[b].bucket.date : b \in 1..Len(buckets)})
            /\ \A s \in subtotals :
                  /\ \E b \in 1..Len(buckets) :
                        outputRows[s][COL_TIME] = buckets[b].bucket.date
                  /\ outputRows[s][COL_NETWORK] = <<>>
                  /\ RowHoldsValuesOf(facts, s, groups[s].rows)
            /\ \A s, t \in subtotals :
                  s < t => localeCompare(outputRows[s][COL_TIME],
                                         outputRows[t][COL_TIME]) < 0
            /\ \A j \in details :
                  /\ \E s \in subtotals : s < j
                  /\ \E b \in 1..Len(buckets) :
                        /\ buckets[b].bucket.date = dateOf(j)
                        /\ buckets[b].bucket.network = outputRows[j][COL_NETWORK]
                  /\ outputRows[j][COL_TIME]
                       = (IF options.blankDateForDetailRowsWhenSubtotalEnabled
                               = "false"
                          THEN dateOf(j) ELSE <<>>)
                  /\ RowHoldsValuesOf(facts, j, groups[j].rows)
            /\ \A i, j \in details :
                  (i < j /\ OpeningRow(groups, i) = OpeningRow(groups, j))
                     => localeCompare(outputRows[i][COL_NETWORK],
                                      outputRows[j][COL_NETWORK]) < 0

\* a date with two networks, the date repeated in its detail rows
C15_Witness ==
    /\ WithSubtotals
    /\ options.blankDateForDetailRowsWhenSubtotalEnabled = "false"
    /\ Len(buckets) = 2
    /\ CompareBuckets(buckets[1].bucket, buckets[2].bucket) > 0
    /\ outputRows[1][COL_NETWORK] = <<>>
    /\ outputRows[1][COL_TIME] = buckets[1].bucket.date
    /\ outputRows[2][COL_TIME] = outputRows[1][COL_TIME]
    /\ outputRows[3][COL_TIME] = outputRows[1][COL_TIME]
    /\ outputRows[2][COL_NETWORK] = buckets[2].bucket.network
    /\ outputRows[3][COL_NETWORK] = buckets[1].bucket.network

\* the positions of the output rows whose time is the grand-total label
LabelledRows == {i \in 1..Len(outputRows) : outputRows[i][COL_TIME] = GRAND_TOTAL_LABEL}

\* C16: with includeGrandTotalRow true the output has exactly one row with
\* the grand-total label as its time; it is the last row, its network is
\* blank and it holds the merge of every bucket of the run; with the option
\* false or omitted no row has the label.  With and without daily
\* subtotals, and also for a run without any bucket.
C16_GrandTotalRowIsLastAndOnlyOnRequest ==
    RowsBuilt =>
        IF options.includeGrandTotalRow = "true"
        THEN /\ outputRows # <<>>
             /\ LabelledRows = {Len(outputRows)}
             /\ Len(outputRows)
                  = Len(buildOutputRows(buckets,
                          [options EXCEPT !.includeGrandTotalRow = "false"])) + 1
             /\ outputRows[Len(outputRows)][COL_NETWORK] = <<>>
             /\ LET facts == RowFacts(file)
                IN  RowHoldsValuesOf(facts, Len(outputRows), ValidRows(facts))
             /\ outputRows[Len(outputRows)]
                  = toOutputRow(MergeAll(createEmptyBucket(<<>>, <<>>),
                                         BucketValues(buckets)),
                                GRAND_TOTAL_LABEL, <<>>)
        ELSE LabelledRows = {}

\* a grand total after the detail rows of two buckets, without subtotals
C16_Witness ==
    /\ RowsBuilt
    /\ options.includeGrandTotalRow = "true"
    /\ options.includeDailySubtotalRows # "true"
    /\ Len(buckets) = 2 /\ Len(outputRows) = 3
    /\ LabelledRows = {3}
    /\ RowValue(3, 1) = RowValue(1, 1) + RowValue(2, 1)
    /\ RowValue(1, 1) > 0 /\ RowValue(2, 1) > 0

\* a grand total of a run without any bucket
C16_WitnessNoBucket ==
    /\ RowsBuilt
    /\ options.includeGrandTotalRow = "true"
    /\ buckets = <<>> /\ Len(file.rows) > 0
    /\ Len(outputRows) = 1 /\ LabelledRows = {1}
    /\ outputRows[1][COL_FLOW] = <<"0">>
    /\ outputRows[1][COL_ULPRB] = <<>>

\* C17: every entry point completes by returning a result value, whatever
\* stage fails: a call of previewAndValidateCsv never ends in a rejected
\* promise, and runCsvAggregation ends with a result.
C17_EntryPointsNeverReject ==
    /\ validation # RejectedValidation
    /\ (pc = "done" => result.returned)

\* runCsvAggregation returned the result of its catch for the error
FailedWith(error) ==
    /\ result.returned /\ ~result.success
    /\ "message" \in DOMAIN result
    /\ result.message = error

\* C18: a failure of serializing, transcoding or writing the output makes
\* runCsvAggregation return the error code WRITE_FAILED, a stream or parse
\* failure of the full-file pass PARSE_FAILED, and UNKNOWN is returned only
\* for an exception that is neither.
C18_FailuresCarryTheCodeOfTheirStage ==
    /\ FailedWith(ERROR_WRITE) => result.errorCode = "WRITE_FAILED"
    /\ FailedWith(ERROR_STREAM) => result.errorCode = "PARSE_FAILED"
    /\ (result.returned /\ ~result.success /\ result.errorCode = "UNKNOWN")
          => FailedWith(ERROR_PREFIX_READ)

\* the columns the code counts invalid values of
TrackedColumns == {COL_TIME, COL_NETWORK} \cup SeqRange(NUMERIC_COLUMNS)

\* the number of the data rows whose value of the column was counted invalid
InvalidCount(f, col) ==
    IF col = COL_TIME
    THEN Cardinality({n \in 1..Len(f.rows) : TimeInvalid(f, n)})
    ELSE IF col = COL_NETWORK
    THEN Cardinality({n \in 1..Len(f.rows) : NetworkInvalid(f, n)})
    ELSE Cardinality({n \in 1..Len(f.rows) :
                         /\ RowValid(f, n)
                         /\ NumericField(f, n, NumericPos(col)).isNull})

Succeeded == result.returned /\ result.success

\* C19 as it is stated: the invalidFieldStats of a run result has 13 keys
\* (11 numeric fields, time and network), each present from the start, so
\* that a key that never failed is there with the value 0.
C19_ThirteenKeysFromZero ==
    Succeeded =>
        /\ Cardinality(DOMAIN result.invalidFieldStats) = 13
        /\ \A col \in DOMAIN result.invalidFieldStats :
              result.invalidFieldStats[col] = InvalidCount(file, col)

\* C19 amended: the invalidFieldStats of a successful run has 12 keys, the
\* ten numeric fields, time and network, each holding the number of its
\* invalid values, 0 for a key that never failed; the result of a failed
\* run has the empty mapping.
C19_TwelveKeysFromZero ==
    result.returned =>
        IF result.success
        THEN /\ DOMAIN result.invalidFieldStats = TrackedColumns
             /\ Cardinality(DOMAIN result.invalidFieldStats) = 12
             /\ \A col \in TrackedColumns :
                   result.invalidFieldStats[col] = InvalidCount(file, col)
        ELSE DOMAIN result.invalidFieldStats = {}

\* a successful run in which one field failed and all others never did
C19_Witness ==
    /\ Succeeded
    /\ result.processedRows = 2
    /\ result.invalidFieldStats[COL_ULPRB] = 1
    /\ \A col \in TrackedColumns \ {COL_ULPRB} :
          result.invalidFieldStats[col] = 0

(***************************************************************************)
(* The preview of long files                                               *)
(***************************************************************************)
MaxDataRows == 104

\* a file of the canonical header and n data rows
LongFile(n) == MkFile("utf-8", ",", HEADER_CANONICAL, [i \in 1..n |-> 1])

InitPreview ==
    /\ fileExists = TRUE
    /\ file \in {LongFile(n) : n \in 0..MaxDataRows}
    /\ dir = DIR_FREE
    /\ pc = "idle"
    /\ preview = NoValidation
    /\ validation = NoValidation
    /\ cursor = 0
    /\ isHeader = TRUE
    /\ processedRows = 0
    /\ skippedRows = 0
    /\ invalidFieldStats = InitialStats
    /\ buckets = <<>>
    /\ outputPath = NoPath
    /\ result = NoResult
    /\ options = NO_OPTIONS
    /\ outputRows = <<>>
    /\ mergeTarget = createEmptyBucket(<<>>, <<>>)
    /\ mergePending = <<>>
    /\ SideIdle

NextPreview == PreviewCall \/ PreviewCallRejected

SpecPreview == InitPreview /\ [][NextPreview]_vars

\* C20: for an existing input previewRows is the header row followed by
\* the first 100 data rows of the file, or by all its data rows when it
\* has fewer than 100.
C20_PreviewIsHeaderAndUpTo100DataRows ==
    validation.returned =>
        LET dataRows == IF Len(file.rows) < 100 THEN Len(file.rows) ELSE 100
        IN  /\ Len(validation.previewRows) = 1 + dataRows
            /\ validation.previewRows = SubSeq(file.records, 1, 1 + dataRows)

(***************************************************************************)
(* The counters and the buckets during the streaming pass                  *)
(***************************************************************************)
\* skippedRows is the number of rows counted under time or network, at most
\* processedRows, and no counter is negative
CountersConsistent ==
    /\ skippedRows = invalidFieldStats[COL_TIME] + invalidFieldStats[COL_NETWORK]
    /\ skippedRows <= processedRows
    /\ processedRows >= 0 /\ skippedRows >= 0
    /\ \A col \in DOMAIN invalidFieldStats : invalidFieldStats[col] >= 0

\* C28: in every state of the streaming pass skippedRows is the sum of the
\* time and network invalid counters and at most processedRows; all
\* counters are non-negative and no step decreases any of them.
C28_SkippedRowsIsTimePlusNetwork ==
    [][/\ CountersConsistent
       /\ CountersConsistent'
       /\ processedRows' >= processedRows
       /\ skippedRows' >= skippedRows
       /\ DOMAIN invalidFieldStats' = DOMAIN invalidFieldStats
       /\ \A col \in DOMAIN invalidFieldStats :
             invalidFieldStats'[col] >= invalidFieldStats[col]]_vars

\* a pass that skipped one row for its time and one for its network
C28_Witness ==
    /\ pc = "streaming"
    /\ processedRows = 2 /\ skippedRows = 2
    /\ invalidFieldStats[COL_TIME] = 1 /\ invalidFieldStats[COL_NETWORK] = 1

\* the sum of the count of the k-th averaged field over all buckets
TotalCount(k) ==
    SumOver(1..Len(buckets),
            [b \in 1..Len(buckets) |-> buckets[b].bucket[AVG_FIELDS[k].countKey]])

\* C26: in every state of the streaming pass, for each of the 8 averaged
\* fields the counts of all buckets and the field's invalid counter add up
\* to the number of non-skipped rows, processedRows - skippedRows; for the
\* 2 sum-only fields the invalid counter is at most that number.
C26_EachRowIsCountedOrInvalid ==
    /\ \A k \in 1..8 :
          TotalCount(k) + invalidFieldStats[AVG_FIELDS[k].column]
             = processedRows - skippedRows
    /\ \A k \in 1..2 :
          invalidFieldStats[SUM_FIELDS[k].column] <= processedRows - skippedRows

\* two rows aggregated into two buckets; an averaged field parsed in one
\* of the rows and failed in the other, another parsed in both
C26_Witness ==
    /\ pc = "streaming"
    /\ processedRows = 2 /\ skippedRows = 0 /\ Len(buckets) = 2
    /\ \E k \in 1..8 :
          /\ TotalCount(k) = 1
          /\ invalidFieldStats[AVG_FIELDS[k].column] = 1
    /\ \E k \in 1..8 : TotalCount(k) = 2

\* the data rows read so far: the first record read is the header
RowsRead == {n \in 1..Len(file.rows) : n < cursor}

\* the (day, network) pairs of the buckets, and of the rows read so far
\* that were not skipped
BucketPairs ==
    {<<buckets[b].bucket.date, buckets[b].bucket.network>> : b \in 1..Len(buckets)}

AggregatedPairs ==
    {<<RowDay(file, n).day, NetworkField(file, n)>> :
        n \in {r \in RowsRead : RowValid(file, r)}}

BucketsAreThoseOfTheRows ==
    /\ BucketPairs = AggregatedPairs
    /\ Cardinality(BucketPairs) = Len(buckets)
    /\ \A b \in 1..Len(buckets) :
          buckets[b].key
            = BucketKey(buckets[b].bucket.date, buckets[b].bucket.network)

\* C27: in every state of the streaming pass the bucket keys are the
\* (day, network) pairs of the non-skipped rows read so far, also of a row
\* whose numeric fields all fail to parse, and never of a skipped row; no
\* step removes a bucket or decreases a count.
C27_BucketsAreCreatedLazilyAndKept ==
    /\ []BucketsAreThoseOfTheRows
    /\ [][/\ Len(buckets') >= Len(buckets)
          /\ \A b \in 1..Len(buckets) :
                /\ buckets'[b].key = buckets[b].key
                /\ \A k \in 1..8 :
                      buckets'[b].bucket[AVG_FIELDS[k].countKey]
                         >= buckets[b].bucket[AVG_FIELDS[k].countKey]]_vars

\* a skipped row and a row whose numeric fields all fail: one bucket, all
\* its counts 0
C27_Witness ==
    /\ pc = "streaming"
    /\ processedRows = 2 /\ skippedRows = 1
    /\ Len(buckets) = 1
    /\ \E n \in RowsRead :
          /\ RowValid(file, n)
          /\ \A i \in 1..10 : NumericField(file, n, i).isNull
    /\ \A k \in 1..8 : buckets[1].bucket[AVG_FIELDS[k].countKey] = 0

\* C30: every failure result of runCsvAggregation has processedRows = 0,
\* skippedRows = 0, an empty invalidFieldStats and no outputPath, also when
\* data rows had been processed or the output file had been created before
\* the failure; the counters of the pass are reported only with success.
C30_FailureResultsCarryNoCounters ==
    result.returned =>
        IF result.success
        THEN /\ result.processedRows = processedRows
             /\ result.skippedRows = skippedRows
             /\ result.invalidFieldStats = invalidFieldStats
             /\ result.outputPath = outputPath
        ELSE /\ result.errorCode \in {"FILE_NOT_FOUND", "MISSING_COLUMNS",
                                     "OUTPUT_EXISTS", "UNKNOWN"}
             /\ result.processedRows = 0
             /\ result.skippedRows = 0
             /\ DOMAIN result.invalidFieldStats = {}
             /\ "outputPath" \notin DOMAIN result

\* a run that failed in the writer after two data rows, one of them
\* skipped, and after the output file was created
C30_Witness ==
    /\ result.returned /\ ~result.success
    /\ result.errorCode = "UNKNOWN"
    /\ processedRows = 2 /\ skippedRows = 1
    /\ outputPath # NoPath
    /\ Exists(dir, outputPath)

\* C22: a run returns success, with its outputPath, only in the step in
\* which the output writer finishes, the file then being there; a failure
\* of a stage ends the run with one result, success = false; and a run
\* that has returned a result never returns another.
C22_OneResultAndSuccessOnlyAfterTheWrite ==
    [][/\ result.returned => (result' = result /\ pc' = pc /\ dir' = dir)
       /\ (~result.returned /\ result'.returned) =>
             /\ pc' = "done"
             /\ IF result'.success
                THEN /\ pc = "writing"
                     /\ result'.outputPath = outputPath
                     /\ dir' = Created(dir, outputPath)
                     /\ Exists(dir', outputPath)
                ELSE /\ pc \in {"idle", "previewing", "streaming", "writing"}
                     /\ "outputPath" \notin DOMAIN result'
       /\ (pc' = "done" /\ pc # "done") => result'.returned]_vars

\* a run that failed while streaming, after one data row
C22_Witness ==
    /\ pc = "done"
    /\ result.returned /\ ~result.success
    /\ result.errorCode = "UNKNOWN" /\ result.message = ERROR_STREAM
    /\ cursor = 2 /\ processedRows = 1
    /\ outputPath = NoPath

\* -------------------------------------------------------------------------
\* The rows of buildOutputRows, counted against the buckets

\* the rows that carry a network: the detail rows
DetailRows == {i \in 1..Len(outputRows) : outputRows[i][COL_NETWORK] # <<>>}

\* the date a detail row stands under: its own, or, where its date cell is
\* blank, that of the last row without a network before it
DateOfDetail(i) ==
    IF outputRows[i][COL_TIME] # <<>> THEN outputRows[i][COL_TIME]
    ELSE LET above == {j \in 1..(i - 1) : outputRows[j][COL_NETWORK] = <<>>}
         IN  IF above = {} THEN <<>>
             ELSE outputRows[CHOOSE j \in above : \A k \in above : k <= j][COL_TIME]

BucketDates == {buckets[b].bucket.date : b \in 1..Len(buckets)}

ExpectedRowCount ==
    Len(buckets)
    + (IF options.includeDailySubtotalRows = "true"
       THEN Cardinality(BucketDates) ELSE 0)
    + (IF options.includeGrandTotalRow = "true" THEN 1 ELSE 0)

BLANK_DATE_VALUES == {"true", "false", "undefined"}

EachBucketIsOneDetailRow ==
    /\ Cardinality(DetailRows) = Len(buckets)
    /\ \A b \in 1..Len(buckets) :
          LET item == buckets[b].bucket
              mine == {i \in DetailRows :
                         /\ outputRows[i][COL_NETWORK] = item.network
                         /\ DateOfDetail(i) = item.date}
          IN  /\ Cardinality(mine) = 1
              /\ \A i \in mine :
                    outputRows[i]
                      = toOutputRow(item, outputRows[i][COL_TIME], item.network)

\* C29: the rows built hold each bucket once as a detail row; their number
\* is the number of buckets, plus the number of distinct dates when daily
\* subtotals are asked for, plus one when the grand total is asked for;
\* without daily subtotals the blank-date option changes no row; and
\* building the rows leaves the buckets as they were.
C29_RowCountAndFrameOfBuildOutputRows ==
    /\ [](RowsBuilt =>
            /\ EachBucketIsOneDetailRow
            /\ Len(outputRows) = ExpectedRowCount
            /\ options.includeDailySubtotalRows # "true" =>
                 \A v \in BLANK_DATE_VALUES :
                    buildOutputRows(buckets,
                       [options EXCEPT
                          !.blankDateForDetailRowsWhenSubtotalEnabled = v])
                    = outputRows)
    /\ [][(pc = "streaming" /\ pc' = "writing") => buckets' = buckets]_vars

\* two buckets of two dates, with daily subtotals and the grand total:
\* five rows
C29_Witness ==
    /\ RowsBuilt
    /\ Len(buckets) = 2
    /\ Cardinality(BucketDates) = 2
    /\ options.includeDailySubtotalRows = "true"
    /\ options.includeGrandTotalRow = "true"
    /\ Len(outputRows) = 5

(***************************************************************************)
(* detectDelimiter on its own                                              *)
(***************************************************************************)
CANDIDATES == <<",", ";", "\t", "|">>

SAMPLE_LINES == 20

\* sample.split(/\r?\n/): the pieces between line feeds, a carriage return
\* before a line feed belonging to the separator
SplitLines(text) ==
    LET feeds == {i \in 1..Len(text) : text[i] = "\n"}
        feed(k) == IF k = 0 THEN 0
                   ELSE IF k > Cardinality(feeds) THEN Len(text) + 1
                   ELSE CHOOSE p \in feeds :
                           Cardinality({q \in feeds : q < p}) = k - 1
        last(k) == IF /\ k <= Cardinality(feeds)
                      /\ feed(k) - 1 > feed(k - 1)
                      /\ text[feed(k) - 1] = "\r"
                   THEN feed(k) - 2 ELSE feed(k) - 1
    IN  SubSeq([k \in 1..(Cardinality(feeds) + 1) |->
                   SubSeq(text, feed(k - 1) + 1, last(k))],
               1, Cardinality(feeds) + 1)

FirstOf(list, n) == SubSeq(list, 1, IF Len(list) < n THEN Len(list) ELSE n)

TrimAll(list) == [i \in 1..Len(list) |-> Trim(list[i])]

\* line.split(candidate).length
FieldCount(line, candidate) ==
    Cardinality({i \in 1..Len(line) : line[i] = candidate}) + 1

\* the score of one candidate over the lines kept
Score(lines, candidate) ==
    IF Len(lines) = 0 THEN 0
    ELSE LET counts == [i \in 1..Len(lines) |-> FieldCount(lines[i], candidate)]
             valid == Cardinality({i \in 1..Len(counts) : counts[i] > 1})
             consistency ==
                 IF \A i \in 1..Len(counts) : counts[i] = counts[1] THEN 2 ELSE 1
         IN  valid * consistency

\* the first entry of the scores sorted by descending score; the sort is
\* stable, so among equal scores the earlier candidate stays in front
BestOf(lines) ==
    LET scores == SubSeq([k \in 1..Len(CANDIDATES) |-> Score(lines, CANDIDATES[k])],
                         1, Len(CANDIDATES))
        first == CHOOSE i \in 1..Len(CANDIDATES) :
                    /\ \A j \in 1..Len(CANDIDATES) : scores[j] <= scores[i]
                    /\ \A j \in 1..(i - 1) : scores[j] < scores[i]
    IN  CANDIDATES[first]

\* detectDelimiter: the lines are trimmed before they are counted and split
detectDelimiter(text) ==
    LET lines == FirstOf(SelectSeq(TrimAll(SplitLines(text)),
                                   LAMBDA line : Len(line) > 0),
                         SAMPLE_LINES)
    IN  BestOf(lines)

\* ---- the samples ----
TextOf(str) ==
    CASE str = "a,b" -> <<"a", ",", "b">>
      [] str = "a;b" -> <<"a", ";", "b">>
      [] str = "a|b" -> <<"a", "|", "b">>
      [] str = "a<TAB>b" -> <<"a", "\t", "b">>
      [] str = "a<TAB>" -> <<"a", "\t">>
      [] str = "a" -> <<"a">>
      [] str = "a,b;c;d" -> <<"a", ",", "b", ";", "c", ";", "d">>
      [] str = "a,b|c|d<CR>" -> <<"a", ",", "b", "|", "c", "|", "d", "\r">>
      [] str = " " -> <<" ">>
      [] str = "" -> <<>>

SAMPLE_LINE_POOL ==
    {TextOf(str) : str \in {"a,b", "a;b", "a|b", "a<TAB>b", "a<TAB>", "a",
                            "a,b;c;d", "a,b|c|d<CR>", " ", ""}}

MaxRepeat == 21

RECURSIVE Repeat(_, _)
Repeat(line, n) == IF n = 0 THEN <<>> ELSE <<line>> \o Repeat(line, n - 1)

RECURSIVE JoinLines(_)
JoinLines(list) ==
    IF list = <<>> THEN <<>>
    ELSE IF Len(list) = 1 THEN list[1]
    ELSE list[1] \o <<"\n">> \o JoinLines(Tail(list))

\* samples of up to MaxRepeat lines of one kind followed by up to two lines
\* of another
Samples ==
    {JoinLines(Repeat(l1, n1) \o Repeat(l2, n2)) :
        l1 \in SAMPLE_LINE_POOL, l2 \in SAMPLE_LINE_POOL,
        n1 \in {0, 1, 2, MaxRepeat - 2, MaxRepeat - 1, MaxRepeat}, n2 \in 0..2}

InitDelimiter ==
    /\ fileExists = FALSE
    /\ file = NO_FILE
    /\ dir = DIR_FREE
    /\ pc = "idle"
    /\ preview = NoValidation
    /\ validation = NoValidation
    /\ cursor = 0
    /\ isHeader = TRUE
    /\ processedRows = 0
    /\ skippedRows = 0
    /\ invalidFieldStats = InitialStats
    /\ buckets = <<>>
    /\ outputPath = NoPath
    /\ result = NoResult
    /\ options = NO_OPTIONS
    /\ outputRows = <<>>
    /\ mergeTarget = createEmptyBucket(<<>>, <<>>)
    /\ mergePending = <<>>
    /\ sample \in Samples
    /\ best = NoDelimiter
    /\ HeadIdle
    /\ RaceIdle

\* a call of detectDelimiter
DetectCall ==
    /\ best = NoDelimiter
    /\ best' = detectDelimiter(sample)
    /\ UNCHANGED <<sample, headVars, raceVars, outVars, mergeVars, fileExists, file, dir, pc, preview,
                   validation, passVars, outputPath, result>>

NextDelimiter == DetectCall

SpecDelimiter == InitDelimiter /\ [][NextDelimiter]_vars

\* ---- the scoring as it is described ----
RawLines == SplitLines(sample)

SplitsOf(line, c) == Cardinality({i \in 1..Len(line) : line[i] = c}) + 1

\* the first 20 lines of the sample that are not blank
SampledLines ==
    FirstOf(SelectSeq(RawLines, LAMBDA line : Trim(line) # <<>>), SAMPLE_LINES)

DescribedScore(sampled, c) ==
    Cardinality({i \in 1..Len(sampled) : SplitsOf(sampled[i], c) > 1})
    * (IF \A i \in 1..Len(sampled) :
             SplitsOf(sampled[i], c) = SplitsOf(sampled[1], c)
       THEN 2 ELSE 1)

DescribedBest ==
    LET sampled == SampledLines
        scores == <<DescribedScore(sampled, ","), DescribedScore(sampled, ";"),
                    DescribedScore(sampled, "\t"), DescribedScore(sampled, "|")>>
    IN  IF \A k \in 1..4 : scores[k] = 0 THEN ","
        ELSE CANDIDATES[CHOOSE k \in 1..4 :
                /\ \A j \in 1..4 : scores[j] <= scores[k]
                /\ \A j \in 1..(k - 1) : scores[j] < scores[k]]

\* C24: detectDelimiter returns the candidate of (comma, semicolon, tab,
\* pipe) with the highest score over the first 20 non-blank lines of the
\* sample, the score being the number of lines that split into more than
\* one field, doubled when all lines split into the same number of fields;
\* the earlier candidate wins a tie and comma is returned when all scores
\* are zero.
C24_DelimiterIsTheBestScored ==
    best # NoDelimiter => best = DescribedBest

\* the scoring described is what the code computes for samples none of
\* whose lines begins or ends with white space
DelimiterIsTheBestScoredOfBareLines ==
    (/\ best # NoDelimiter
     /\ \A i \in 1..Len(RawLines) : Trim(RawLines[i]) = RawLines[i])
    => best = DescribedBest

(***************************************************************************)
(* readFileHeadBuffer on its own                                           *)
(***************************************************************************)
\* A chunk of bytes is its length and the offsets (1..len) of its line feeds.
MAX_BYTES == 2097152

HIGH_WATER_MARK == 65536

HEAD_LINES == 101

mainVars == <<fileExists, file, dir, pc, preview, validation, passVars,
              outputPath, result, outVars, mergeVars>>

EMPTY_BUFFER == [len |-> 0, feeds |-> {}]

\* chunk.subarray(0, available)
Slice(chunk, available) ==
    [len |-> available, feeds |-> {o \in chunk.feeds : o <= available}]

\* Buffer.concat
RECURSIVE Concat(_)
Concat(list) ==
    IF list = <<>> THEN EMPTY_BUFFER
    ELSE LET front == Concat(SubSeq(list, 1, Len(list) - 1))
             tail == list[Len(list)]
         IN  [len |-> front.len + tail.len,
              feeds |-> front.feeds \cup {front.len + o : o \in tail.feeds}]

\* merged.toString('binary').split(/\r?\n/).length
LineCountOf(merged) == Cardinality(merged.feeds) + 1

Resolved(buffer) == [state |-> "resolved", value |-> buffer]

Rejected(error) == [state |-> "rejected", error |-> error]

OnData_unsliced ==
    /\ ~destroyed /\ ~closed
    /\ delivered < Len(stream)
    /\ delivered' = delivered + 1
    /\ LET chunk == stream[delivered + 1]
       IN  IF total >= MAX_BYTES
           THEN /\ destroyed' = TRUE
                /\ UNCHANGED <<chunks, total>>
           ELSE /\ chunks' = Append(chunks, chunk)
                /\ total' = total + chunk.len
                /\ destroyed' = (\/ LineCountOf(Concat(chunks')) >= HEAD_LINES
                                 \/ total' >= MAX_BYTES)
    /\ UNCHANGED <<stream, closed, headBuffer, detectVars, raceVars, mainVars>>

\* stream.on('data'): the handler of one chunk.  A destroyed stream ignores
\* what is pushed to it, so it emits no chunk after destroy().
OnData ==
    /\ ~destroyed /\ ~closed
    /\ delivered < Len(stream)
    /\ delivered' = delivered + 1
    /\ LET chunk == stream[delivered + 1]
       IN  IF total >= MAX_BYTES
           THEN /\ destroyed' = TRUE
                /\ UNCHANGED <<chunks, total>>
           ELSE LET available == MAX_BYTES - total
                    sliced == IF chunk.len > available
                              THEN Slice(chunk, available) ELSE chunk
                IN  /\ chunks' = Append(chunks, sliced)
                    /\ total' = total + sliced.len
                    /\ destroyed' = (\/ LineCountOf(Concat(chunks')) >= HEAD_LINES
                                     \/ total' >= MAX_BYTES)
    /\ UNCHANGED <<stream, closed, headBuffer, detectVars, raceVars, mainVars>>

\* stream.on('close'): after destroy(), or after the end of the file
OnClose ==
    /\ ~closed
    /\ destroyed \/ delivered = Len(stream)
    /\ closed' = TRUE
    /\ headBuffer' = IF headBuffer = Pending THEN Resolved(Concat(chunks))
                     ELSE headBuffer
    /\ UNCHANGED <<stream, delivered, destroyed, chunks, total, detectVars, raceVars, mainVars>>

\* stream.on('error', reject): a failed read destroys the stream
OnError ==
    /\ ~closed /\ ~destroyed
    /\ headBuffer = Pending
    /\ destroyed' = TRUE
    /\ headBuffer' = Rejected(ERROR_PREFIX_READ)
    /\ UNCHANGED <<stream, delivered, closed, chunks, total, detectVars, raceVars, mainVars>>

\* ---- the files ----
FULL_PLAIN == [len |-> HIGH_WATER_MARK, feeds |-> {}]

FULL_LINES == [len |-> HIGH_WATER_MARK, feeds |-> {1000 * k : k \in 1..60}]

SHORT_PLAIN == [len |-> 40000, feeds |-> {}]

SHORT_LINES == [len |-> 500, feeds |-> {10 * k : k \in 1..50}]

LAST_LINE == [len |-> 10, feeds |-> {10}]

CHUNK_KINDS == {FULL_PLAIN, FULL_LINES, SHORT_PLAIN, SHORT_LINES, LAST_LINE}

MaxChunks == 33

\* up to two chunks of one kind followed by up to MaxChunks of another
Streams ==
    {Repeat(c2, n2) \o Repeat(c1, n1) :
        c1 \in CHUNK_KINDS, c2 \in CHUNK_KINDS, n1 \in 0..MaxChunks, n2 \in 0..2}

InitHead ==
    /\ fileExists = TRUE
    /\ file = NO_FILE
    /\ dir = DIR_FREE
    /\ pc = "idle"
    /\ preview = NoValidation
    /\ validation = NoValidation
    /\ cursor = 0
    /\ isHeader = TRUE
    /\ processedRows = 0
    /\ skippedRows = 0
    /\ invalidFieldStats = InitialStats
    /\ buckets = <<>>
    /\ outputPath = NoPath
    /\ result = NoResult
    /\ options = NO_OPTIONS
    /\ outputRows = <<>>
    /\ mergeTarget = createEmptyBucket(<<>>, <<>>)
    /\ mergePending = <<>>
    /\ DetectIdle
    /\ stream \in Streams
    /\ delivered = 0
    /\ destroyed = FALSE
    /\ closed = FALSE
    /\ chunks = <<>>
    /\ total = 0
    /\ headBuffer = Pending
    /\ RaceIdle

NextHead == OnData \/ OnClose \/ OnError

SpecHead == InitHead /\ [][NextHead]_vars

\* ---- the claim ----
Buffered == Concat(chunks)

StopIsDue == LineCountOf(Buffered) >= HEAD_LINES \/ total >= MAX_BYTES

\* the first total bytes of the file
FilePrefix == Slice(Concat(stream), total)

\* C25: the bytes buffered never exceed 2 MiB; the stream is destroyed as
\* soon as the bytes buffered hold at least 101 lines or reach the cap;
\* nothing is buffered once it was destroyed; and when the stream closes
\* the promise resolves with the bytes buffered, which are a prefix of the
\* file, also when the file is larger than the cap.
C25_PrefixReadIsBounded ==
    /\ [](/\ total <= MAX_BYTES
          /\ total = Buffered.len
          /\ Buffered = FilePrefix
          /\ headBuffer.state # "rejected" => (destroyed <=> StopIsDue)
          /\ closed => headBuffer.state # "pending"
          /\ headBuffer.state = "resolved" =>
                closed /\ headBuffer.value = Buffered)
    /\ [][destroyed => (chunks' = chunks /\ total' = total)]_vars

\* a file larger than the cap: the last chunk buffered was cut, a chunk was
\* left unread and the promise resolved with 2 MiB
C25_Witness ==
    /\ closed
    /\ headBuffer.state = "resolved"
    /\ headBuffer.value.len = MAX_BYTES
    /\ Concat(stream).len > MAX_BYTES
    /\ delivered < Len(stream)
    /\ chunks[Len(chunks)].len < stream[Len(chunks)].len

(***************************************************************************)
(* Two overlapping calls of runCsvAggregation on one input                 *)
(***************************************************************************)
\* The handler of csv:runAggregation starts a call for every message; the
\* calls share the directory and nothing else.  A call runs from one await
\* to the next without interruption: the rows are built, the output path is
\* chosen and the write stream is requested in one step; the file is opened
\* (created or truncated) by a later step of the stream, and so is every
\* row written.
RUNS == {1, 2}

MaxOutputRows == 2

\* the rows a call writes, marked with the call they are of
RowsOfRun(r, n) == [i \in 1..n |-> <<r, i>>]

HOLE == <<0, 0>>

RECURSIVE PadTo(_, _)
PadTo(data, n) == IF Len(data) >= n THEN data ELSE PadTo(Append(data, HOLE), n)

\* a write of one row at the position pos of the file
WriteAt(data, pos, row) == [PadTo(data, pos) EXCEPT ![pos] = row]

ContentsAt(path) == IF path \in DOMAIN contents THEN contents[path] ELSE <<>>

SetContents(path, data) ==
    [p \in DOMAIN contents \cup {path} |-> IF p = path THEN data ELSE contents[p]]

RaceResult(r) ==
    [returned |-> TRUE, success |-> TRUE, outputPath |-> runs[r].outputPath]

\* runCsvAggregation is called: the input exists and its header is valid
RaceStart(r) ==
    /\ runs[r].pc = "idle"
    /\ runs' = [runs EXCEPT ![r].pc = "parsing"]
    /\ UNCHANGED <<contents, dir, detectVars, headVars, fileExists, file, pc,
                   preview, validation, passVars, outputPath, result, outVars,
                   mergeVars>>

RaceSelect_basePathAlways(r) ==
    /\ runs[r].pc = "parsing"
    /\ \E now \in NOW_VALUES :
          runs' = [runs EXCEPT ![r].pc = "opening",
                               ![r].outputPath = getOutputPath]
    /\ UNCHANGED <<contents, dir, detectVars, headVars, fileExists, file, pc,
                   preview, validation, passVars, outputPath, result, outVars,
                   mergeVars>>

\* parseDataRows has resolved: outputPath = getNextAvailableOutputPath(...)
\* and the call of writeOutputFile, up to its await
RaceSelect(r) ==
    /\ runs[r].pc = "parsing"
    /\ \E now \in NOW_VALUES :
          runs' = [runs EXCEPT ![r].pc = "opening",
                               ![r].outputPath =
                                   getNextAvailableOutputPath(dir, now)]
    /\ UNCHANGED <<contents, dir, detectVars, headVars, fileExists, file, pc,
                   preview, validation, passVars, outputPath, result, outVars,
                   mergeVars>>

\* the write stream opens its file with the flag 'w'
RaceOpen(r) ==
    /\ runs[r].pc = "opening"
    /\ runs' = [runs EXCEPT ![r].pc = "writing"]
    /\ dir' = Created(dir, runs[r].outputPath)
    /\ contents' = SetContents(runs[r].outputPath, <<>>)
    /\ UNCHANGED <<detectVars, headVars, fileExists, file, pc,
                   preview, validation, passVars, outputPath, result, outVars,
                   mergeVars>>

\* the write stream writes the next row at its own position
RaceWrite(r) ==
    /\ runs[r].pc = "writing"
    /\ runs[r].written < Len(runs[r].rows)
    /\ runs' = [runs EXCEPT ![r].written = @ + 1]
    /\ contents' = SetContents(runs[r].outputPath,
                      WriteAt(ContentsAt(runs[r].outputPath),
                              runs[r].written + 1,
                              runs[r].rows[runs[r].written + 1]))
    /\ UNCHANGED <<dir, detectVars, headVars, fileExists, file, pc,
                   preview, validation, passVars, outputPath, result, outVars,
                   mergeVars>>

\* the writer emits 'finish': the call returns success
RaceFinish(r) ==
    /\ runs[r].pc = "writing"
    /\ runs[r].written = Len(runs[r].rows)
    /\ runs' = [runs EXCEPT ![r].pc = "done", ![r].result = RaceResult(r)]
    /\ UNCHANGED <<contents, dir, detectVars, headVars, fileExists, file, pc,
                   preview, validation, passVars, outputPath, result, outVars,
                   mergeVars>>

\* the writer fails: the call returns the failure of its catch
RaceError(r) ==
    /\ runs[r].pc \in {"opening", "writing"}
    /\ runs' = [runs EXCEPT ![r].pc = "done", ![r].result = Caught(ERROR_WRITE)]
    /\ UNCHANGED <<contents, dir, detectVars, headVars, fileExists, file, pc,
                   preview, validation, passVars, outputPath, result, outVars,
                   mergeVars>>

RACE_DIRS ==
    {DIR_FREE, DIR_BASE_TAKEN,
     [base |-> TRUE, indexes |-> {1, 3}, timestamps |-> {}]}

InitRace ==
    /\ fileExists = TRUE
    /\ file = MkFile("utf-8", ",", HEADER_CANONICAL, <<>>)
    /\ dir \in RACE_DIRS
    /\ pc = "idle"
    /\ preview = NoValidation
    /\ validation = NoValidation
    /\ cursor = 0
    /\ isHeader = TRUE
    /\ processedRows = 0
    /\ skippedRows = 0
    /\ invalidFieldStats = InitialStats
    /\ buckets = <<>>
    /\ outputPath = NoPath
    /\ result = NoResult
    /\ options = NO_OPTIONS
    /\ outputRows = <<>>
    /\ mergeTarget = createEmptyBucket(<<>>, <<>>)
    /\ mergePending = <<>>
    /\ DetectIdle
    /\ HeadIdle
    /\ \E n1, n2 \in 1..MaxOutputRows :
          runs = [r \in RUNS |->
                    [pc |-> "idle", outputPath |-> NoPath, result |-> NoResult,
                     rows |-> RowsOfRun(r, IF r = 1 THEN n1 ELSE n2),
                     written |-> 0]]
    /\ contents = <<>>

NextRace ==
    \E r \in RUNS :
        \/ RaceStart(r)
        \/ RaceSelect(r)
        \/ RaceOpen(r)
        \/ RaceWrite(r)
        \/ RaceFinish(r)
        \/ RaceError(r)

SpecRace == InitRace /\ [][NextRace]_vars

\* ---- the claim ----
BothSucceededAt(path) ==
    \A r \in RUNS : /\ runs[r].result.returned
                    /\ runs[r].result.success
                    /\ runs[r].result.outputPath = path

\* C23: overlapping calls are not kept apart.  A call chooses a path that
\* does not exist at the moment of its check, whatever the other call has
\* chosen and not yet created, and reports that path on success; so both
\* calls can report one path, and then that one file cannot hold the rows
\* of both.
C23_OverlappingRunsShareOneOutputFile ==
    /\ [](\A r \in RUNS :
            /\ (runs[r].result.returned /\ runs[r].result.success) =>
                  /\ runs[r].result.outputPath = runs[r].outputPath
                  /\ Exists(dir, runs[r].outputPath)
            /\ runs[r].pc = "opening" =>
                  \/ ~Exists(dir, runs[r].outputPath)
                  \/ \E q \in RUNS \ {r} : runs[q].outputPath = runs[r].outputPath)
    /\ [](\A path \in DOMAIN contents :
            BothSucceededAt(path) =>
               \E r \in RUNS : contents[path] # runs[r].rows)
    /\ [][\A r \in RUNS :
            (runs[r].pc = "parsing" /\ runs'[r].pc = "opening") =>
               ~Exists(dir, runs'[r].outputPath)]_vars

\* both calls checked the free base path before either opened it; both
\* returned success with it, and the file holds the rows of the second
\* call only
C23_Witness ==
    /\ dir = Created(DIR_FREE, BasePath)
    /\ BothSucceededAt(BasePath)
    /\ contents[BasePath] = runs[2].rows
    /\ contents[BasePath] # runs[1].rows

(***************************************************************************)
(* The pass over the rows of a file in another order                       *)
(***************************************************************************)
MaxOrderRows == 3

\* a row of day 1 and network NSA whose flow is 1e16
ROW_BIG ==
    DataRow(TIME_D1_SECONDS, NET_NSA,
            [i \in 1..10 |-> IF i = 1 THEN LITERAL_1E16 ELSE PlainNum(i)], 15)

\* a row of the same day and network whose flow is 1
ROW_ONE == DataRow(TIME_D1_SLASH, NET_NSA, [i \in 1..10 |-> PlainNum(i)], 15)

ORDER_ROWS == {ROW_BIG, ROW_ONE, ROWS[3], ROWS[5]}

RECURSIVE RowLists(_)
RowLists(n) ==
    IF n = 0 THEN {<<>>}
    ELSE RowLists(n - 1)
         \cup {Append(list, r) : list \in {l \in RowLists(n - 1) : Len(l) = n - 1},
                                 r \in ORDER_ROWS}

\* the file of the canonical header and the rows given
FileOfRows(rows) ==
    [encoding |-> "utf-8",
     delimiter |-> ",",
     header |-> HEADER_CANONICAL,
     rows |-> rows,
     records |-> <<[i \in 1..Len(HEADER_CANONICAL) |-> HEADER_CANONICAL[i].text]>>
                 \o [i \in 1..Len(rows) |-> Layout(HEADER_CANONICAL, rows[i])]]

InitOrder ==
    /\ fileExists = TRUE
    /\ file \in {FileOfRows(rows) : rows \in RowLists(MaxOrderRows)}
    /\ dir = DIR_FREE
    /\ pc = "idle"
    /\ preview = NoValidation
    /\ validation = NoValidation
    /\ cursor = 0
    /\ isHeader = TRUE
    /\ processedRows = 0
    /\ skippedRows = 0
    /\ invalidFieldStats = InitialStats
    /\ buckets = <<>>
    /\ outputPath = NoPath
    /\ result = NoResult
    /\ options = NO_OPTIONS
    /\ outputRows = <<>>
    /\ mergeTarget = createEmptyBucket(<<>>, <<>>)
    /\ mergePending = <<>>
    /\ SideIdle

\* a call of runCsvAggregation that gets as far as the rows built
NextOrder == RunStart \/ PreviewResolved \/ OnRecord \/ ParserEnd

SpecOrder == InitOrder /\ [][NextOrder]_vars

\* the readable loop of parseDataRows over all records
RECURSIVE PassOver(_, _)
PassOver(records, normalizedHeader) ==
    IF records = <<>>
    THEN [isHeader |-> TRUE, processedRows |-> 0, skippedRows |-> 0,
          invalidFieldStats |-> InitialStats, buckets |-> <<>>]
    ELSE ReadableStep(records[Len(records)], normalizedHeader,
                      PassOver(SubSeq(records, 1, Len(records) - 1),
                               normalizedHeader))

BucketSet(bs) == {bs[b] : b \in 1..Len(bs)}

\* the pass over the rows in the order given ends as the pass of the run did
SameAggregate(order) ==
    LET other == PassOver(FileOfRows(order).records,
                          NormalizeAll(preview.previewRows[1]))
    IN  /\ BucketSet(other.buckets) = BucketSet(buckets)
        /\ other.processedRows = processedRows
        /\ other.skippedRows = skippedRows
        /\ other.invalidFieldStats = invalidFieldStats
        /\ buildOutputRows(other.buckets, options) = outputRows

\* C21: the pass over the data rows of a file in any other order ends
\* with the same set of buckets, the same processedRows, skippedRows and
\* invalidFieldStats, and buildOutputRows gives the same rows for the same
\* options.
C21_AggregateIsIndependentOfRowOrder ==
    RowsBuilt => \A order \in OrdersOf(file.rows) : SameAggregate(order)

\* the same for the files whose sums stay below 2^53, where every addition
\* of the pass is exact
OrderIndependentWhereSumsAreExact ==
    (RowsBuilt /\ \A i \in 1..Len(file.rows) : file.rows[i] # ROW_BIG)
    => \A order \in OrdersOf(file.rows) : SameAggregate(order)

\* except for the sums, the aggregate is the same in every order
OrderIndependentCounters ==
    RowsBuilt =>
       \A order \in OrdersOf(file.rows) :
          LET other == PassOver(FileOfRows(order).records,
                                NormalizeAll(preview.previewRows[1]))
          IN  /\ {b.key : b \in BucketSet(other.buckets)}
                   = {b.key : b \in BucketSet(buckets)}
              /\ other.processedRows = processedRows
              /\ other.skippedRows = skippedRows
              /\ other.invalidFieldStats = invalidFieldStats

=============================================================================
